---- MODULE Spec2Model ----
(***************************************************************************)
(* Model of the CSDL schema compiler of nv-redfish (csdl-compiler):        *)
(* SchemaBundle::compile, the schema index, the compilation stack, the     *)
(* singleton / entity type / type resolvers and the mergeable Compiled IR. *)
(* The recursive descent of the compiler is modelled as a call stack of    *)
(* activation records (calls) over the chain of Stack frames (stack); one  *)
(* action is one step of one resolver.                                     *)
(***************************************************************************)
EXTENDS Integers, Sequences, FiniteSets, TLC

VARIABLES edmx_docs, singletons, schema_index, stack, calls, ret, result, compiled_count

\* the action declaration compile_action is called with and the resolver that
\* calls it (the types it has compiled before, the frame it calls from)
VARIABLES action, host
VARIABLES fragments, merged
VARIABLES first_run
VARIABLES input, parsed, shown
VARIABLES bmc, account_service
VARIABLES namespaces

compiler_vars ==
  <<edmx_docs, singletons, schema_index, stack, calls, ret, result, compiled_count>>

\* the state of the units that are not part of SchemaBundle::compile
unit_vars ==
  <<action, host, fragments, merged, first_run, input, parsed, shown, bmc, account_service,
    namespaces>>

vars == <<compiler_vars, unit_vars>>

(***************************************************************************)
(* Option values: None is the empty sequence, Some(x) a one-element one.   *)
(***************************************************************************)
None == <<>>
Some(x) == <<x>>

(***************************************************************************)
(* Names.  A namespace is a sequence of identifiers, a qualified name is a *)
(* pair <<namespace, name>>.                                               *)
(***************************************************************************)
QualifiedName(ns, name) == <<ns, name>>

\* edmx::Namespace::is_edm
Namespace_is_edm(ns) == Len(ns) = 1 /\ ns[1] = "Edm"

\* compiler::is_simple_type
is_simple_type(qtype) == Namespace_is_edm(qtype[1])

(***************************************************************************)
(* Compiled IR.  Maps are functions whose domain is the set of keys.       *)
(***************************************************************************)
EmptyMap == <<>>

Compiled_default ==
  [ complex_types |-> EmptyMap,
    entity_types |-> EmptyMap,
    type_definitions |-> EmptyMap,
    enum_types |-> EmptyMap,
    actions |-> EmptyMap,
    creatable_entity_types |-> {},
    root_singletons |-> <<>> ]

\* HashMap::extend: entries of other replace entries of self with the same key
Extend(self, other) == other @@ self

\* EntityType::insertable_member_type
insertable_member_type(v) ==
  IF v.insertable
  THEN LET members == SelectSeq(v.nav_properties, LAMBDA p : p.name = "Members")
       IN IF members # <<>> /\ members[1].expandable
          THEN Some(members[1].ptype)
          ELSE None
  ELSE None

\* faulty variant: the member type of an insertable collection is not recorded
new_entity_type_not_creatable(v) ==
  [Compiled_default EXCEPT !.entity_types = (v.name :> v)]

\* Compiled::new_entity_type
new_entity_type(v) ==
  [ Compiled_default EXCEPT
      !.entity_types = (v.name :> v),
      !.creatable_entity_types =
         IF insertable_member_type(v) = None THEN {} ELSE {insertable_member_type(v)[1]} ]

\* Compiled::new_complex_type
new_complex_type(v) == [Compiled_default EXCEPT !.complex_types = (v.name :> v)]

\* Compiled::new_type_definition
new_type_definition(v) == [Compiled_default EXCEPT !.type_definitions = (v.name :> v)]

\* Compiled::new_enum_type
new_enum_type(v) == [Compiled_default EXCEPT !.enum_types = (v.name :> v)]

\* Compiled::new_singleton (the root-singleton list of the IR)
new_singleton(v) == [Compiled_default EXCEPT !.root_singletons = <<v>>]

\* the root-singleton lists of two fragments concatenate
merge_root_singletons(self, other) == self \o other

\* faulty variant: a bound type both sides have actions for is removed and
\* never inserted again
merge_actions_dropping(selfactions, otheractions) ==
  [ qname \in (DOMAIN selfactions \cup DOMAIN otheractions)
               \ (DOMAIN selfactions \cap DOMAIN otheractions) |->
      IF qname \notin DOMAIN otheractions THEN selfactions[qname] ELSE otheractions[qname] ]

\* faulty variant: the actions of the other side are not added to a bound
\* type self already has actions for
merge_actions_not_extended(selfactions, otheractions) ==
  [ qname \in DOMAIN selfactions \cup DOMAIN otheractions |->
      IF qname \in DOMAIN selfactions THEN selfactions[qname] ELSE otheractions[qname] ]

\* faulty variant: the actions of the other side replace the actions self has
\* for the same bound type
merge_actions_replaced(selfactions, otheractions) ==
  [ qname \in DOMAIN selfactions \cup DOMAIN otheractions |->
      IF qname \in DOMAIN otheractions THEN otheractions[qname] ELSE selfactions[qname] ]

\* the fold of Compiled::merge over the two-level action map
merge_actions(selfactions, otheractions) ==
  [ qname \in DOMAIN selfactions \cup DOMAIN otheractions |->
      IF qname \notin DOMAIN otheractions THEN selfactions[qname]
      ELSE IF qname \notin DOMAIN selfactions THEN otheractions[qname]
      ELSE Extend(selfactions[qname], otheractions[qname]) ]

\* faulty variant: the entity types of the other fragment are not taken over
Compiled_merge_without_entity_types(self, other) ==
  [ complex_types |-> Extend(self.complex_types, other.complex_types),
    type_definitions |-> Extend(self.type_definitions, other.type_definitions),
    enum_types |-> Extend(self.enum_types, other.enum_types),
    entity_types |-> self.entity_types,
    creatable_entity_types |-> self.creatable_entity_types \cup other.creatable_entity_types,
    actions |-> merge_actions(self.actions, other.actions),
    root_singletons |-> merge_root_singletons(self.root_singletons, other.root_singletons) ]

\* Compiled::merge
Compiled_merge(self, other) ==
  [ complex_types |-> Extend(self.complex_types, other.complex_types),
    type_definitions |-> Extend(self.type_definitions, other.type_definitions),
    enum_types |-> Extend(self.enum_types, other.enum_types),
    entity_types |-> Extend(self.entity_types, other.entity_types),
    creatable_entity_types |-> self.creatable_entity_types \cup other.creatable_entity_types,
    actions |-> merge_actions(self.actions, other.actions),
    root_singletons |-> merge_root_singletons(self.root_singletons, other.root_singletons) ]

(***************************************************************************)
(* Compilation stack: a chain of frames, the parent of frame i is frame    *)
(* i - 1 and the last frame is the one the running resolver works on.      *)
(***************************************************************************)
\* Stack::default
Stack_default == [entity_type |-> None, current |-> Compiled_default]

\* Stack::new_frame
new_frame(stk) == Append(stk, Stack_default)

\* Stack::with_enitity_type
with_enitity_type(stk, name) == [stk EXCEPT ![Len(stk)].entity_type = Some(name)]

\* Stack::contains_entity, from frame i up through its parents
RECURSIVE contains_entity_from(_, _, _)
contains_entity_from(stk, i, qtype) ==
  IF i = 0 THEN FALSE
  ELSE \/ qtype \in DOMAIN stk[i].current.entity_types
       \/ stk[i].entity_type = Some(qtype)
       \/ contains_entity_from(stk, i - 1, qtype)

\* faulty variant: only the compiled entity types are looked up, not the type that
\* is being compiled
contains_entity_compiled_only(stk, qtype) ==
  \E i \in 1..Len(stk) : qtype \in DOMAIN stk[i].current.entity_types

contains_entity(stk, qtype) == contains_entity_from(stk, Len(stk), qtype)

\* Stack::contains_complex_type
RECURSIVE contains_complex_type_from(_, _, _)
contains_complex_type_from(stk, i, qtype) ==
  IF i = 0 THEN FALSE
  ELSE \/ qtype \in DOMAIN stk[i].current.complex_types
       \/ contains_complex_type_from(stk, i - 1, qtype)

contains_complex_type(stk, qtype) == contains_complex_type_from(stk, Len(stk), qtype)

\* faulty variant: the fragment is merged into the root frame
Stack_merge_into_root(stk, c) == [stk EXCEPT ![1].current = Compiled_merge(@, c)]

\* Stack::merge
Stack_merge(stk, c) == [stk EXCEPT ![Len(stk)].current = Compiled_merge(@, c)]

\* Stack::done: the accumulator of the last frame
Stack_done(stk) == stk[Len(stk)].current

\* the chain without its last frame (the frame is consumed)
Pop(s) == SubSeq(s, 1, Len(s) - 1)

(***************************************************************************)
(* Declarations (the parsed documents).  edmx_docs is a sequence of        *)
(* documents, a document a sequence of schemas; a schema has a namespace,  *)
(* a map from local name to declaration and an optional entity container   *)
(* (a sequence of singletons).                                             *)
(***************************************************************************)
RECURSIVE FlatSchemas(_)
FlatSchemas(docs) ==
  IF docs = <<>> THEN <<>> ELSE Head(docs) \o FlatSchemas(Tail(docs))

\* one step of the child_map fold of SchemaIndex::build: an entity type with a
\* base type is pushed to the children of its base
child_map_entry(map, s, name) ==
  LET t == s.types[name] IN
  IF t.kind = "entity" /\ t.base_type # None
  THEN LET qname == QualifiedName(s.namespace, name)
           base_type == t.base_type[1]
       IN IF base_type \in DOMAIN map
          THEN [map EXCEPT ![base_type] = Append(@, qname)]
          ELSE map @@ (base_type :> <<qname>>)
  ELSE map

\* the fold over the types of one schema.  The types are a hash map and its
\* iteration order is unspecified: the fold yields, for the maps it may start
\* from, the maps it may end with, one for every order of the names
RECURSIVE child_map_types(_, _, _)
child_map_types(maps, s, names) ==
  IF names = {} THEN maps
  ELSE UNION { child_map_types({child_map_entry(map, s, name) : map \in maps},
                               s, names \ {name}) : name \in names }

\* the fold over all schemas of all documents, in order
RECURSIVE child_map_schemas(_, _)
child_map_schemas(maps, ss) ==
  IF ss = <<>> THEN maps
  ELSE child_map_schemas(child_map_types(maps, Head(ss), DOMAIN Head(ss).types), Tail(ss))

\* the namespace index: collecting into a hash map keeps the last schema of
\* a namespace
index_of(ss) ==
  [ ns \in {ss[j].namespace : j \in DOMAIN ss} |->
      ss[CHOOSE j \in DOMAIN ss :
           /\ ss[j].namespace = ns
           /\ \A l \in DOMAIN ss : ss[l].namespace = ns => l <= j] ]

\* SchemaIndex::build: the indexes it may return, one for every iteration
\* order of the hash maps of types
SchemaIndex_build(docs) ==
  { [index |-> index_of(FlatSchemas(docs)), child_map |-> child_map] :
      child_map \in child_map_schemas({EmptyMap}, FlatSchemas(docs)) }

\* SchemaIndex::get followed by the lookup of the local name
find_decl(idx, qtype) ==
  IF qtype[1] \in DOMAIN idx.index /\ qtype[2] \in DOMAIN idx.index[qtype[1]].types
  THEN Some(idx.index[qtype[1]].types[qtype[2]])
  ELSE None

\* SchemaIndex::find_entity_type
find_entity_type(idx, qtype) ==
  LET t == find_decl(idx, qtype) IN
  IF t # None /\ t[1].kind = "entity" THEN t ELSE None

\* SchemaIndex::find_type: a type definition, enum or complex type declaration
find_type(idx, qtype) ==
  LET t == find_decl(idx, qtype) IN
  IF t # None /\ t[1].kind \in {"typedef", "enum", "complex"} THEN t ELSE None

(***************************************************************************)
(* Errors: a chain of wrappers from the outermost to the root cause, each  *)
(* a triple <<kind, namespace, name>>.                                     *)
(***************************************************************************)
Error_Schema(ns, e) == <<<<"Schema", ns, "">>>> \o e
Error_Singleton(name, e) == <<<<"Singleton", <<>>, name>>>> \o e
Error_EntityType(q, e) == <<<<"EntityType", q[1], q[2]>>>> \o e
Error_Type(q, e) == <<<<"Type", q[1], q[2]>>>> \o e
Error_Property(name, e) == <<<<"Property", <<>>, name>>>> \o e
Error_AmbigousHeirarchy(q) == <<<<"AmbigousHeirarchy", q[1], q[2]>>>>
Error_EntityTypeNotFound(q) == <<<<"EntityTypeNotFound", q[1], q[2]>>>>
Error_TypeNotFound(q) == <<<<"TypeNotFound", q[1], q[2]>>>>
Error_TypeDefinitionOfNotPrimitiveType(q) ==
  <<<<"TypeDefinitionOfNotPrimitiveType", q[1], q[2]>>>>

(***************************************************************************)
(* The machine: results of calls and activation records.                   *)
(***************************************************************************)
NoRet == [tag |-> "none", compiled |-> Compiled_default, error |-> <<>>]
Ok(c) == [tag |-> "ok", compiled |-> c, error |-> <<>>]
Err(e) == [tag |-> "err", compiled |-> Compiled_default, error |-> e]

NoName == QualifiedName(<<>>, "")

Call(fn, pc, q) ==
  [ fn |-> fn, pc |-> pc, q |-> q, name |-> "", d |-> 1, s |-> 1, k |-> 1,
    i |-> 1, properties |-> <<>>, nav_properties |-> <<>> ]

\* the deepest call stack the model follows; a deeper recursion exhausts the
\* thread's stack
MaxDepth == 12

Top == calls[Len(calls)]
Running == result.state = "running" /\ calls # <<>> /\ Len(calls) <= MaxDepth
SetTop(c) == [calls EXCEPT ![Len(calls)] = c]
Push(c) == Append(calls, c)
PushOver(t, c) == Append(SetTop(t), c)

Counted(q) == [compiled_count EXCEPT ![q] = @ + 1]

(***************************************************************************)
(* SchemaBundle::compile and SchemaBundle::compile_schema                  *)
(***************************************************************************)
Finish(state, c, e) == [state |-> state, compiled |-> c, error |-> e]

\* no merge law is being evaluated
merge_idle == fragments = <<>> /\ merged = <<>>

\* compile has not been called before
never_run == first_run = None

\* no duration is being parsed
duration_idle == input = <<>> /\ parsed = <<>> /\ shown = <<>>

\* no account service is in use
accounts_idle == bmc = <<>> /\ account_service = <<>>

\* no namespace values are compared
namespaces_idle == namespaces = <<>>

\* compile: build the index and start the fold over the documents
compile_begin ==
  /\ result.state = "init"
  /\ schema_index' \in SchemaIndex_build(edmx_docs)
  /\ stack' = <<Stack_default>>
  /\ calls' = <<Call("compile", "docs", NoName)>>
  /\ result' = Finish("running", Compiled_default, <<>>)
  /\ UNCHANGED <<unit_vars, edmx_docs, singletons, ret, compiled_count>>

\* compile: the next document gets a frame of its own
compile_doc ==
  /\ Running /\ Top.fn = "compile" /\ Top.pc = "docs"
  /\ Top.d <= Len(edmx_docs)
  /\ stack' = new_frame(stack)
  /\ calls' = SetTop([Top EXCEPT !.pc = "schemas", !.s = 1])
  /\ UNCHANGED <<unit_vars, edmx_docs, singletons, schema_index, ret, result, compiled_count>>

\* compile: all documents folded, Stack::done is the result
compile_done ==
  /\ Running /\ Top.fn = "compile" /\ Top.pc = "docs"
  /\ Top.d > Len(edmx_docs)
  /\ result' = Finish("ok", Stack_done(stack), <<>>)
  /\ calls' = <<>>
  /\ stack' = <<>>
  /\ UNCHANGED <<unit_vars, edmx_docs, singletons, schema_index, ret, compiled_count>>

\* compile_schema on the next schema of the document: without an entity
\* container it is Ok(Compiled::default()), else a fold over the singletons
compile_schema_begin ==
  /\ Running /\ Top.fn = "compile" /\ Top.pc = "schemas"
  /\ Top.s <= Len(edmx_docs[Top.d])
  /\ IF edmx_docs[Top.d][Top.s].entity_container = None
     THEN /\ stack' = Stack_merge(stack, Stack_done(new_frame(stack)))
          /\ calls' = SetTop([Top EXCEPT !.s = @ + 1])
     ELSE /\ stack' = new_frame(stack)
          /\ calls' = SetTop([Top EXCEPT !.pc = "singletons", !.k = 1])
  /\ UNCHANGED <<unit_vars, edmx_docs, singletons, schema_index, ret, result, compiled_count>>

\* compile: the document's frame is done and merged into the root frame
compile_doc_done ==
  /\ Running /\ Top.fn = "compile" /\ Top.pc = "schemas"
  /\ Top.s > Len(edmx_docs[Top.d])
  /\ stack' = Stack_merge(Pop(stack), Stack_done(stack))
  /\ calls' = SetTop([Top EXCEPT !.pc = "docs", !.d = @ + 1])
  /\ UNCHANGED <<unit_vars, edmx_docs, singletons, schema_index, ret, result, compiled_count>>

\* faulty variant: every singleton of the container is compiled
compile_schema_singleton_unfiltered ==
  /\ Running /\ Top.fn = "compile" /\ Top.pc = "singletons" /\ ret.tag = "none"
  /\ LET container == edmx_docs[Top.d][Top.s].entity_container[1] IN
     /\ Top.k <= Len(container)
     /\ calls' = Push([Call("singleton", "walk", container[Top.k].stype)
                         EXCEPT !.name = container[Top.k].name])
  /\ UNCHANGED <<unit_vars, edmx_docs, singletons, schema_index, stack, ret, result, compiled_count>>

\* compile_schema: a singleton whose name is activated is compiled
compile_schema_singleton ==
  /\ Running /\ Top.fn = "compile" /\ Top.pc = "singletons" /\ ret.tag = "none"
  /\ LET container == edmx_docs[Top.d][Top.s].entity_container[1] IN
     /\ Top.k <= Len(container)
     /\ container[Top.k].name \in singletons
     /\ calls' = Push([Call("singleton", "walk", container[Top.k].stype)
                         EXCEPT !.name = container[Top.k].name])
  /\ UNCHANGED <<unit_vars, edmx_docs, singletons, schema_index, stack, ret, result, compiled_count>>

\* compile_schema: a singleton whose name is not activated is skipped
compile_schema_skip ==
  /\ Running /\ Top.fn = "compile" /\ Top.pc = "singletons" /\ ret.tag = "none"
  /\ LET container == edmx_docs[Top.d][Top.s].entity_container[1] IN
     /\ Top.k <= Len(container)
     /\ container[Top.k].name \notin singletons
     /\ calls' = SetTop([Top EXCEPT !.k = @ + 1])
  /\ UNCHANGED <<unit_vars, edmx_docs, singletons, schema_index, stack, ret, result, compiled_count>>

\* compile_schema: the fragment of a compiled singleton is merged
compile_schema_merge ==
  /\ Running /\ Top.fn = "compile" /\ Top.pc = "singletons" /\ ret.tag = "ok"
  /\ stack' = Stack_merge(stack, ret.compiled)
  /\ calls' = SetTop([Top EXCEPT !.k = @ + 1])
  /\ ret' = NoRet
  /\ UNCHANGED <<unit_vars, edmx_docs, singletons, schema_index, result, compiled_count>>

\* faulty variant: a singleton that failed is left out and the fold goes on
compile_schema_fail_skipped ==
  /\ Running /\ Top.fn = "compile" /\ Top.pc = "singletons" /\ ret.tag = "err"
  /\ calls' = SetTop([Top EXCEPT !.k = @ + 1])
  /\ ret' = NoRet
  /\ UNCHANGED <<unit_vars, edmx_docs, singletons, schema_index, stack, result, compiled_count>>

\* compile_schema: a failure is wrapped with the namespace of the schema and
\* ends the folds over the schemas and the documents
compile_schema_fail ==
  /\ Running /\ Top.fn = "compile" /\ Top.pc = "singletons" /\ ret.tag = "err"
  /\ result' = Finish("err", Compiled_default,
                      Error_Schema(edmx_docs[Top.d][Top.s].namespace, ret.error))
  /\ calls' = <<>>
  /\ stack' = <<>>
  /\ ret' = NoRet
  /\ UNCHANGED <<unit_vars, edmx_docs, singletons, schema_index, compiled_count>>

\* compile_schema: all singletons folded; the schema's frame is done and
\* merged into the document's frame
compile_schema_done ==
  /\ Running /\ Top.fn = "compile" /\ Top.pc = "singletons" /\ ret.tag = "none"
  /\ Top.k > Len(edmx_docs[Top.d][Top.s].entity_container[1])
  /\ stack' = Stack_merge(Pop(stack), Stack_done(stack))
  /\ calls' = SetTop([Top EXCEPT !.pc = "schemas", !.s = @ + 1])
  /\ UNCHANGED <<unit_vars, edmx_docs, singletons, schema_index, ret, result, compiled_count>>

(***************************************************************************)
(* CompiledSingleton::compile with SchemaIndex::find_child_entity_type     *)
(***************************************************************************)
\* the children recorded for a type, if any
children_of(idx, qtype) ==
  IF qtype \in DOMAIN idx.child_map THEN Some(idx.child_map[qtype]) ELSE None

\* faulty variant: the loop stops at the first declared entity type
find_child_continues_undeclared(idx, qtype) ==
  /\ children_of(idx, qtype) # None /\ Len(children_of(idx, qtype)[1]) >= 1
  /\ find_entity_type(idx, qtype) = None

\* faulty variant: the loop also stops at a type that is in the frame chain
find_child_continues_outside_chain(idx, qtype) ==
  /\ children_of(idx, qtype) # None /\ Len(children_of(idx, qtype)[1]) >= 1
  /\ ~contains_entity(stack, qtype)

\* find_child_entity_type: the loop goes on while children are recorded and
\* there is a first child
find_child_continues(idx, qtype) ==
  children_of(idx, qtype) # None /\ Len(children_of(idx, qtype)[1]) >= 1

\* faulty variant: two children are not yet an ambiguous hierarchy
find_child_ambiguous_above_two(idx, qtype) ==
  children_of(idx, qtype) # None /\ Len(children_of(idx, qtype)[1]) > 2

\* faulty variant: more than one child is no error, the walk goes to the first
find_child_ambiguous_ignored(idx, qtype) == FALSE

\* find_child_entity_type: more than one child is an ambiguous hierarchy
find_child_ambiguous(idx, qtype) ==
  children_of(idx, qtype) # None /\ Len(children_of(idx, qtype)[1]) > 1

\* find_child_entity_type: one iteration, descending to the only child
find_child_entity_type_descend ==
  /\ Running /\ Top.fn = "singleton" /\ Top.pc = "walk"
  /\ find_child_continues(schema_index, Top.q)
  /\ ~find_child_ambiguous(schema_index, Top.q)
  /\ calls' = SetTop([Top EXCEPT !.q = children_of(schema_index, Top.q)[1][1]])
  /\ UNCHANGED <<unit_vars, edmx_docs, singletons, schema_index, stack, ret, result, compiled_count>>

\* find_child_entity_type fails with AmbigousHeirarchy, which the singleton wraps
find_child_entity_type_ambiguous ==
  /\ Running /\ Top.fn = "singleton" /\ Top.pc = "walk"
  /\ find_child_ambiguous(schema_index, Top.q)
  /\ ret' = Err(Error_Singleton(Top.name, Error_AmbigousHeirarchy(Top.q)))
  /\ calls' = Pop(calls)
  /\ UNCHANGED <<unit_vars, edmx_docs, singletons, schema_index, stack, result, compiled_count>>

\* the loop is over and the type it ended at is not a declared entity type
find_child_entity_type_not_found ==
  /\ Running /\ Top.fn = "singleton" /\ Top.pc = "walk"
  /\ ~find_child_continues(schema_index, Top.q)
  /\ find_entity_type(schema_index, Top.q) = None
  /\ ret' = Err(Error_Singleton(Top.name, Error_EntityTypeNotFound(Top.q)))
  /\ calls' = Pop(calls)
  /\ UNCHANGED <<unit_vars, edmx_docs, singletons, schema_index, stack, result, compiled_count>>

\* the singleton record of CompiledSingleton::compile
singleton_record(name, qtype) == [name |-> name, stype |-> qtype]

\* the descendant is found and already in the frame chain: only the
\* singleton record is returned
singleton_already_compiled ==
  /\ Running /\ Top.fn = "singleton" /\ Top.pc = "walk"
  /\ ~find_child_continues(schema_index, Top.q)
  /\ find_entity_type(schema_index, Top.q) # None
  /\ contains_entity(stack, Top.q)
  /\ ret' = Ok(Compiled_merge(Compiled_default,
                              new_singleton(singleton_record(Top.name, Top.q))))
  /\ calls' = Pop(calls)
  /\ UNCHANGED <<unit_vars, edmx_docs, singletons, schema_index, stack, result, compiled_count>>

\* faulty variant: the descendant is compiled whether it is in the frame chain
\* or not
singleton_compile_entity_always ==
  /\ Running /\ Top.fn = "singleton" /\ Top.pc = "walk"
  /\ ~find_child_continues(schema_index, Top.q)
  /\ find_entity_type(schema_index, Top.q) # None
  /\ calls' = PushOver([Top EXCEPT !.pc = "wait"], Call("entity", "start", Top.q))
  /\ UNCHANGED <<unit_vars, edmx_docs, singletons, schema_index, stack, ret, result, compiled_count>>

\* the descendant is found and not in the frame chain: it is compiled
singleton_compile_entity ==
  /\ Running /\ Top.fn = "singleton" /\ Top.pc = "walk"
  /\ ~find_child_continues(schema_index, Top.q)
  /\ find_entity_type(schema_index, Top.q) # None
  /\ ~contains_entity(stack, Top.q)
  /\ calls' = PushOver([Top EXCEPT !.pc = "wait"], Call("entity", "start", Top.q))
  /\ UNCHANGED <<unit_vars, edmx_docs, singletons, schema_index, stack, ret, result, compiled_count>>

\* faulty variant: the fragment of the entity type is returned without the record of
\* the singleton
singleton_return_without_record ==
  /\ Running /\ Top.fn = "singleton" /\ Top.pc = "wait" /\ ret.tag # "none"
  /\ ret' = IF ret.tag = "ok"
            THEN Ok(ret.compiled)
            ELSE Err(Error_Singleton(Top.name, Error_EntityType(Top.q, ret.error)))
  /\ calls' = Pop(calls)
  /\ UNCHANGED <<unit_vars, edmx_docs, singletons, schema_index, stack, result, compiled_count>>

\* the entity type is compiled (the singleton record is merged) or failed (the
\* error is wrapped with the entity type and with the singleton)
singleton_return ==
  /\ Running /\ Top.fn = "singleton" /\ Top.pc = "wait" /\ ret.tag # "none"
  /\ ret' = IF ret.tag = "ok"
            THEN Ok(Compiled_merge(ret.compiled,
                                   new_singleton(singleton_record(Top.name, Top.q))))
            ELSE Err(Error_Singleton(Top.name, Error_EntityType(Top.q, ret.error)))
  /\ calls' = Pop(calls)
  /\ UNCHANGED <<unit_vars, edmx_docs, singletons, schema_index, stack, result, compiled_count>>

(***************************************************************************)
(* EntityType::compile and EntityType::ensure                              *)
(***************************************************************************)
\* EntityType::compile: a frame marked with the entity type is opened; a
\* declared base type is ensured first, else the properties are compiled in
\* a new frame over the frame that holds the (empty) fragment of the base
EntityType_compile_begin ==
  /\ Running /\ Top.fn = "entity" /\ Top.pc = "start"
  /\ LET et == find_entity_type(schema_index, Top.q)[1]
         marked == with_enitity_type(new_frame(stack), Top.q)
     IN IF et.base_type # None
        THEN /\ stack' = marked
             /\ calls' = PushOver([Top EXCEPT !.pc = "base"],
                                  Call("ensure", "start", et.base_type[1]))
        ELSE /\ stack' = new_frame(Stack_merge(new_frame(marked), Compiled_default))
             /\ calls' = SetTop([Top EXCEPT !.pc = "props", !.i = 1])
  /\ UNCHANGED <<unit_vars, edmx_docs, singletons, schema_index, ret, result, compiled_count>>

\* faulty variant: the fragment of the base type is not merged
EntityType_compile_base_dropped ==
  /\ Running /\ Top.fn = "entity" /\ Top.pc = "base" /\ ret.tag # "none"
  /\ IF ret.tag = "ok"
     THEN /\ stack' = new_frame(Stack_merge(new_frame(stack), Compiled_default))
          /\ calls' = SetTop([Top EXCEPT !.pc = "props", !.i = 1])
          /\ ret' = NoRet
     ELSE /\ stack' = Pop(stack)
          /\ calls' = Pop(calls)
          /\ ret' = ret
  /\ UNCHANGED <<unit_vars, edmx_docs, singletons, schema_index, result, compiled_count>>

\* faulty variant: a base type that failed is left out and the properties are
\* compiled
EntityType_compile_base_failure_ignored ==
  /\ Running /\ Top.fn = "entity" /\ Top.pc = "base" /\ ret.tag # "none"
  /\ stack' = new_frame(Stack_merge(new_frame(stack), ret.compiled))
  /\ calls' = SetTop([Top EXCEPT !.pc = "props", !.i = 1])
  /\ ret' = NoRet
  /\ UNCHANGED <<unit_vars, edmx_docs, singletons, schema_index, result, compiled_count>>

\* EntityType::compile: the base type is ensured (its fragment is merged into
\* a new frame) or failed (the error is returned as it is)
EntityType_compile_base ==
  /\ Running /\ Top.fn = "entity" /\ Top.pc = "base" /\ ret.tag # "none"
  /\ IF ret.tag = "ok"
     THEN /\ stack' = new_frame(Stack_merge(new_frame(stack), ret.compiled))
          /\ calls' = SetTop([Top EXCEPT !.pc = "props", !.i = 1])
          /\ ret' = NoRet
     ELSE /\ stack' = Pop(stack)
          /\ calls' = Pop(calls)
          /\ ret' = ret
  /\ UNCHANGED <<unit_vars, edmx_docs, singletons, schema_index, result, compiled_count>>

\* the compiled record of an entity type
entity_type_record(name, et, properties, nav_properties) ==
  [ name |-> name, base |-> et.base_type, properties |-> properties,
    nav_properties |-> nav_properties, insertable |-> et.insertable ]

\* EntityType::compile: all properties are compiled; their fragment and the
\* record of the type itself are merged into the frame of the base, which is
\* done; the three frames of the call are consumed
EntityType_compile_done ==
  /\ Running /\ Top.fn = "entity" /\ Top.pc = "props" /\ ret.tag = "none"
  /\ LET et == find_entity_type(schema_index, Top.q)[1]
         compiled == Stack_done(stack)
         over == Pop(stack)
     IN /\ Top.i > Len(et.properties)
        /\ ret' = Ok(Stack_done(Stack_merge(Stack_merge(over, compiled),
                        new_entity_type(entity_type_record(Top.q, et, Top.properties,
                                                           Top.nav_properties)))))
        /\ stack' = Pop(Pop(over))
  /\ calls' = Pop(calls)
  /\ compiled_count' = Counted(Top.q)
  /\ UNCHANGED <<unit_vars, edmx_docs, singletons, schema_index, result>>

\* EntityType::ensure: nothing to do for an entity type of the frame chain;
\* an undeclared one is EntityTypeNotFound; else the type is compiled
EntityType_ensure_begin ==
  /\ Running /\ Top.fn = "ensure" /\ Top.pc = "start"
  /\ IF contains_entity(stack, Top.q)
     THEN /\ ret' = Ok(Compiled_default)
          /\ calls' = Pop(calls)
     ELSE IF find_entity_type(schema_index, Top.q) = None
     THEN /\ ret' = Err(Error_EntityType(Top.q, Error_EntityTypeNotFound(Top.q)))
          /\ calls' = Pop(calls)
     ELSE /\ ret' = ret
          /\ calls' = PushOver([Top EXCEPT !.pc = "wait"], Call("entity", "start", Top.q))
  /\ UNCHANGED <<unit_vars, edmx_docs, singletons, schema_index, stack, result, compiled_count>>

\* faulty variant: the error of compile is returned as it is
EntityType_ensure_return_unwrapped ==
  /\ Running /\ Top.fn = "ensure" /\ Top.pc = "wait" /\ ret.tag # "none"
  /\ ret' = ret
  /\ calls' = Pop(calls)
  /\ UNCHANGED <<unit_vars, edmx_docs, singletons, schema_index, stack, result, compiled_count>>

\* EntityType::ensure: the result of compile, an error wrapped with the type
EntityType_ensure_return ==
  /\ Running /\ Top.fn = "ensure" /\ Top.pc = "wait" /\ ret.tag # "none"
  /\ ret' = IF ret.tag = "ok" THEN ret ELSE Err(Error_EntityType(Top.q, ret.error))
  /\ calls' = Pop(calls)
  /\ UNCHANGED <<unit_vars, edmx_docs, singletons, schema_index, stack, result, compiled_count>>

(***************************************************************************)
(* ensure_type and compile_type                                            *)
(***************************************************************************)
\* ensure_type: nothing is compiled for a name of the frame chain's entity
\* types and for a primitive type
ensure_type_is_noop(stk, qtype) == contains_entity(stk, qtype) \/ is_simple_type(qtype)

\* the compiled record of a type definition
type_definition_record(name, td) == [name |-> name, underlying_type |-> td.underlying_type]

\* the compiled record of an enum type
enum_type_record(name) == [name |-> name]

\* the compiled record of a complex type
complex_type_record(name, ct, properties, nav_properties) ==
  [ name |-> name, base |-> ct.base_type, properties |-> properties,
    nav_properties |-> nav_properties ]

\* faulty variant: the underlying type of a type definition is not looked at
compile_type_definition_unchecked(qtype, td) ==
  Ok(new_type_definition(type_definition_record(qtype, td)))

\* compile_type, type definition: the underlying type must be primitive
compile_type_definition(qtype, td) ==
  IF is_simple_type(td.underlying_type)
  THEN Ok(new_type_definition(type_definition_record(qtype, td)))
  ELSE Err(Error_Type(qtype, Error_TypeDefinitionOfNotPrimitiveType(td.underlying_type)))

\* compile_type: an undeclared type is TypeNotFound; a type definition and an
\* enum are compiled at once; a complex type compiles its base type first,
\* else its properties in a new frame over a new frame
compile_type_begin ==
  /\ Running /\ Top.fn = "type" /\ Top.pc = "start"
  /\ LET found == find_type(schema_index, Top.q)
         t == found[1]
     IN IF found = None
        THEN /\ ret' = Err(Error_Type(Top.q, Error_TypeNotFound(Top.q)))
             /\ calls' = Pop(calls)
             /\ UNCHANGED <<stack, compiled_count>>
        ELSE IF t.kind = "typedef"
        THEN /\ ret' = compile_type_definition(Top.q, t)
             /\ calls' = Pop(calls)
             /\ compiled_count' = IF is_simple_type(t.underlying_type)
                                  THEN Counted(Top.q) ELSE compiled_count
             /\ UNCHANGED stack
        ELSE IF t.kind = "enum"
        THEN /\ ret' = Ok(new_enum_type(enum_type_record(Top.q)))
             /\ calls' = Pop(calls)
             /\ compiled_count' = Counted(Top.q)
             /\ UNCHANGED stack
        ELSE IF t.base_type # None
        THEN /\ calls' = PushOver([Top EXCEPT !.pc = "base"],
                                  Call("type", "start", t.base_type[1]))
             /\ UNCHANGED <<stack, ret, compiled_count>>
        ELSE /\ stack' = new_frame(Stack_merge(new_frame(stack), Compiled_default))
             /\ calls' = SetTop([Top EXCEPT !.pc = "props", !.i = 1])
             /\ UNCHANGED <<ret, compiled_count>>
  /\ UNCHANGED <<unit_vars, edmx_docs, singletons, schema_index, result>>

\* compile_type, complex type: the base is compiled (its fragment is merged
\* into a new frame) or failed (the error is wrapped with the type)
compile_type_base ==
  /\ Running /\ Top.fn = "type" /\ Top.pc = "base" /\ ret.tag # "none"
  /\ IF ret.tag = "ok"
     THEN /\ stack' = new_frame(Stack_merge(new_frame(stack), ret.compiled))
          /\ calls' = SetTop([Top EXCEPT !.pc = "props", !.i = 1])
          /\ ret' = NoRet
     ELSE /\ stack' = stack
          /\ calls' = Pop(calls)
          /\ ret' = Err(Error_Type(Top.q, ret.error))
  /\ UNCHANGED <<unit_vars, edmx_docs, singletons, schema_index, result, compiled_count>>

\* compile_type, complex type: all properties are compiled; their fragment
\* and the record of the type are merged into the frame, which is done
compile_type_done ==
  /\ Running /\ Top.fn = "type" /\ Top.pc = "props" /\ ret.tag = "none"
  /\ LET ct == find_type(schema_index, Top.q)[1]
         compiled == Stack_done(stack)
         over == Pop(stack)
     IN /\ Top.i > Len(ct.properties)
        /\ ret' = Ok(Stack_done(Stack_merge(Stack_merge(over, compiled),
                        new_complex_type(complex_type_record(Top.q, ct, Top.properties,
                                                             Top.nav_properties)))))
        /\ stack' = Pop(over)
  /\ calls' = Pop(calls)
  /\ compiled_count' = Counted(Top.q)
  /\ UNCHANGED <<unit_vars, edmx_docs, singletons, schema_index, result>>

(***************************************************************************)
(* Properties::compile: the fold over the declared properties of an entity *)
(* type or complex type, in its own frame                                  *)
(***************************************************************************)
\* the declaration whose properties the running call compiles
owner_decl == find_decl(schema_index, Top.q)[1]

compiled_property(p) == [name |-> p.name, ptype |-> p.ptype]

compiled_nav_property(p) == [name |-> p.name, ptype |-> p.ptype, expandable |-> p.expandable]

\* with the compiled form of property p added
with_property(c, p) ==
  IF p.nav
  THEN [c EXCEPT !.nav_properties = Append(@, compiled_nav_property(p)), !.i = @ + 1]
  ELSE [c EXCEPT !.properties = Append(@, compiled_property(p)), !.i = @ + 1]

\* the next property: a navigation property ensures its target entity type, a
\* structural property ensures its type
Properties_compile_next ==
  /\ Running /\ Top.fn \in {"entity", "type"} /\ Top.pc = "props" /\ ret.tag = "none"
  /\ Top.i <= Len(owner_decl.properties)
  /\ LET p == owner_decl.properties[Top.i] IN
     IF p.nav
     THEN calls' = Push(Call("ensure", "start", p.ptype))
     ELSE IF ensure_type_is_noop(stack, p.ptype)
     THEN calls' = SetTop(with_property(Top, p))
     ELSE calls' = Push(Call("type", "start", p.ptype))
  /\ UNCHANGED <<unit_vars, edmx_docs, singletons, schema_index, stack, ret, result, compiled_count>>

\* the type of the property is resolved: its fragment is merged into the
\* frame of the fold and the compiled property is added
Properties_compile_merge ==
  /\ Running /\ Top.fn \in {"entity", "type"} /\ Top.pc = "props" /\ ret.tag = "ok"
  /\ stack' = Stack_merge(stack, ret.compiled)
  /\ calls' = SetTop(with_property(Top, owner_decl.properties[Top.i]))
  /\ ret' = NoRet
  /\ UNCHANGED <<unit_vars, edmx_docs, singletons, schema_index, result, compiled_count>>

\* the type of the property failed: the error is wrapped with the property;
\* EntityType::compile returns it as it is, compile_type wraps it with the
\* type; the frames of the call are dropped
Properties_compile_fail ==
  /\ Running /\ Top.fn \in {"entity", "type"} /\ Top.pc = "props" /\ ret.tag = "err"
  /\ LET e == Error_Property(owner_decl.properties[Top.i].name, ret.error) IN
     IF Top.fn = "entity"
     THEN /\ ret' = Err(e)
          /\ stack' = Pop(Pop(Pop(stack)))
     ELSE /\ ret' = Err(Error_Type(Top.q, e))
          /\ stack' = Pop(Pop(stack))
  /\ calls' = Pop(calls)
  /\ UNCHANGED <<unit_vars, edmx_docs, singletons, schema_index, result, compiled_count>>

\* a recursion deeper than the thread's stack aborts the process
stack_overflow ==
  /\ result.state = "running" /\ Len(calls) > MaxDepth
  /\ result' = Finish("overflow", Compiled_default, <<>>)
  /\ UNCHANGED <<unit_vars, edmx_docs, singletons, schema_index, stack, calls, ret, compiled_count>>

(***************************************************************************)
(* Inputs: the documents and the activation set compile is called with.    *)
(***************************************************************************)
N1 == <<"N1">>
N2 == <<"N2", "v1">>
N3 == <<"N3">>
Edm == <<"Edm">>

A == QualifiedName(N1, "A")
B == QualifiedName(N1, "B")
C == QualifiedName(N2, "C")
D == QualifiedName(N2, "D")
X == QualifiedName(N2, "X")
Y == QualifiedName(N2, "Y")
\* a name that no schema declares
M == QualifiedName(N2, "M")
String == QualifiedName(Edm, "String")

EntityNames == {A, B, C, D}
TypeNames == {X, Y}
AllNames == EntityNames \cup TypeNames \cup {M, String}

EntityDecl(base, props) ==
  [ kind |-> "entity", base_type |-> base, properties |-> props,
    underlying_type |-> NoName, insertable |-> FALSE ]

ComplexDecl(base, props) ==
  [ kind |-> "complex", base_type |-> base, properties |-> props,
    underlying_type |-> NoName, insertable |-> FALSE ]

TypedefDecl(underlying) ==
  [ kind |-> "typedef", base_type |-> None, properties |-> <<>>,
    underlying_type |-> underlying, insertable |-> FALSE ]

EnumDecl ==
  [ kind |-> "enum", base_type |-> None, properties |-> <<>>,
    underlying_type |-> NoName, insertable |-> FALSE ]

PropertyNames == <<"P1", "P2", "P3", "P4">>

\* a navigation property to entity type q, a structural property of type q
Nav(q) == <<TRUE, q>>
Prop(q) == <<FALSE, q>>

\* the declared properties for a sequence of <<is navigation, type>> pairs
Props(ps) ==
  [ j \in DOMAIN ps |->
      [ name |-> PropertyNames[j], nav |-> ps[j][1], ptype |-> ps[j][2],
        expandable |-> FALSE ] ]

Singleton(name, stype) == [name |-> name, stype |-> stype]

Schema(ns, types, container) ==
  [namespace |-> ns, types |-> types, entity_container |-> container]

\* a map entry for an optional declaration
OptEntry(name, decl) == IF decl = None THEN EmptyMap ELSE (name :> decl[1])

\* The documents for the parameters p: the first document holds the schema N1
\* (entity types A and B, a container with the singleton S1 and, when p.place
\* is 1, the singleton S2) and the schema N2 (entity types C and D and the
\* types X and Y, no container); the second document holds the schema N3 (no
\* types, a container with S2 when p.place is 3).
Docs(p) ==
  << << Schema(N1,
               ("A" :> EntityDecl(p.base[A], Props(p.props[A])))
                 @@ ("B" :> EntityDecl(p.base[B], Props(p.props[B]))),
               Some(IF p.place = 1
                    THEN <<Singleton("S1", p.s1), Singleton("S2", p.s2)>>
                    ELSE <<Singleton("S1", p.s1)>>)),
        Schema(N2,
               ("C" :> EntityDecl(p.base[C], Props(p.props[C])))
                 @@ ("D" :> EntityDecl(p.base[D], Props(p.props[D])))
                 @@ OptEntry("X", p.x) @@ OptEntry("Y", p.y),
               None) >>,
     << Schema(N3, EmptyMap,
               Some(IF p.place = 1 THEN <<>> ELSE <<Singleton("S2", p.s2)>>)) >> >>

\* the longest list of properties of a declaration
MaxProps == 2

\* the lists of at most n properties over the given choices
PropLists(choices, n) == UNION {[1..k -> choices] : k \in 0..n}

PerEntity(a, b, c, d) == (A :> a) @@ (B :> b) @@ (C :> c) @@ (D :> d)

NoProps == PerEntity(<<>>, <<>>, <<>>, <<>>)
NoBase == PerEntity(None, None, None, None)

Params(bases, props, xs, ys, s1s, s2s, places, acts) ==
  [ base : bases, props : props, x : xs, y : ys, s1 : s1s, s2 : s2s,
    place : places, act : acts ]

\* Hierarchies: every entity type with no base or one of two other names (a
\* chain A <- B <- C <- D, two types derived from one, cycles of base types,
\* an undeclared base are among them), no properties; the singletons are
\* declared in one container or in two documents and any of them is activated.
HierarchyInputs ==
  Params({PerEntity(a, b, c, d) : a \in {None, Some(B), Some(M)},
                                  b \in {None, Some(A), Some(C)},
                                  c \in {None, Some(A), Some(B)},
                                  d \in {None, Some(B), Some(C)}},
         {NoProps}, {None}, {None},
         {A, M}, {A, C}, {1, 3}, SUBSET {"S1", "S2"})

\* Navigation: entity types that refer to themselves, to each other and to an
\* undeclared name, with and without a base type.
NavigationInputs ==
  Params({NoBase, PerEntity(None, Some(A), None, None)},
         {PerEntity(a, b, c, <<>>) : a \in PropLists({Nav(A), Nav(B), Nav(M)}, MaxProps),
                                     b \in PropLists({Nav(A), Nav(C)}, 1),
                                     c \in PropLists({Nav(A), Prop(String)}, 1)},
         {None}, {None},
         {A}, {B}, {1}, {{"S1"}, {"S1", "S2"}})

\* the declarations of the type X: a complex type (plain, with a property of
\* its own type, with the base Y, with a property of type Y, with a navigation
\* property), a type definition (of a primitive type, of the type Y), an enum
XDecls ==
  { None,
    Some(ComplexDecl(None, <<>>)),
    Some(ComplexDecl(None, Props(<<Prop(X)>>))),
    Some(ComplexDecl(Some(Y), <<>>)),
    Some(ComplexDecl(None, Props(<<Prop(Y)>>))),
    Some(ComplexDecl(None, Props(<<Nav(B)>>))),
    Some(TypedefDecl(String)),
    Some(TypedefDecl(Y)),
    Some(EnumDecl) }

YDecls ==
  { None,
    Some(ComplexDecl(None, <<>>)),
    Some(ComplexDecl(Some(X), <<>>)),
    Some(EnumDecl) }

\* Types: structural properties of complex types, type definitions and enums,
\* declared or not, twice in one entity type and in two entity types.
TypeInputs ==
  Params({NoBase},
         {PerEntity(a, <<Prop(X)>>, <<>>, <<>>) :
            a \in PropLists({Prop(X), Prop(Y), Prop(String)}, MaxProps)},
         XDecls, YDecls,
         {A}, {B}, {1}, {{"S1"}, {"S1", "S2"}})

Inputs == HierarchyInputs \cup NavigationInputs \cup TypeInputs

\* a named navigation property, expandable or a reference
NamedNav(name, q, expandable) ==
  [name |-> name, nav |-> TRUE, ptype |-> q, expandable |-> expandable]

\* an entity type with the Insertable annotation set as given
CollectionDecl(insertable, props) ==
  [EntityDecl(None, props) EXCEPT !.insertable = insertable]

\* the navigation properties of a collection type: Members (expandable or a
\* reference) and another property, in either order, or one of them, or none
MemberLists ==
  LET other == NamedNav("P1", C, TRUE) IN
  {<<>>, <<other>>}
    \cup UNION {{<<m>>, <<m, other>>, <<other, m>>} :
                  m \in {NamedNav("Members", C, TRUE), NamedNav("Members", C, FALSE)}}

\* Collections: the entity type A, insertable or not, with the properties of
\* MemberLists; the entity type B, plain or an insertable collection of D or
\* of C; the singletons S1 of type A and S2 of type B in one container.
CollectionInputs ==
  [ a_insertable : BOOLEAN, a_props : MemberLists,
    b : {CollectionDecl(FALSE, <<>>),
         CollectionDecl(TRUE, <<NamedNav("Members", D, TRUE)>>),
         CollectionDecl(TRUE, <<NamedNav("Members", C, TRUE)>>)},
    act : {{"S1"}, {"S1", "S2"}} ]

CollectionDocs(p) ==
  << << Schema(N1,
               ("A" :> CollectionDecl(p.a_insertable, p.a_props)) @@ ("B" :> p.b),
               Some(<<Singleton("S1", A), Singleton("S2", B)>>)),
        Schema(N2,
               ("C" :> EntityDecl(None, <<>>)) @@ ("D" :> EntityDecl(None, <<>>)),
               None) >> >>

\* Repeated namespaces: the schema N1 (entity types A and B, the singletons
\* S1 of type A and S2 of type B) is supplied in two documents, with the same
\* or with another base type of B; C of the schema N2 may extend A as well.
RepeatedInputs ==
  [ b1 : {None, Some(A)}, b2 : {None, Some(A)}, c : {None, Some(A)},
    act : {{"S1"}, {"S2"}, {"S1", "S2"}} ]

RepeatedDocs(p) ==
  << << Schema(N1,
               ("A" :> EntityDecl(None, <<>>)) @@ ("B" :> EntityDecl(p.b1, <<>>)),
               Some(<<Singleton("S1", A), Singleton("S2", B)>>)) >>,
     << Schema(N1,
               ("A" :> EntityDecl(None, <<>>)) @@ ("B" :> EntityDecl(p.b2, <<>>)),
               None),
        Schema(N2, ("C" :> EntityDecl(p.c, <<>>)), None) >> >>

Init ==
  /\ \/ \E p \in Inputs :
          /\ edmx_docs = Docs(p)
          /\ singletons = p.act
     \/ \E p \in CollectionInputs :
          /\ edmx_docs = CollectionDocs(p)
          /\ singletons = p.act
  /\ schema_index = [index |-> EmptyMap, child_map |-> EmptyMap]
  /\ stack = <<>>
  /\ calls = <<>>
  /\ ret = NoRet
  /\ result = Finish("init", Compiled_default, <<>>)
  /\ compiled_count = [q \in AllNames |-> 0]
  /\ action = None
  /\ host = None
  /\ merge_idle
  /\ never_run
  /\ duration_idle
  /\ namespaces_idle
  /\ accounts_idle

Next ==
  \/ compile_begin
  \/ compile_doc
  \/ compile_done
  \/ compile_schema_begin
  \/ compile_doc_done
  \/ compile_schema_singleton
  \/ compile_schema_skip
  \/ compile_schema_merge
  \/ compile_schema_fail
  \/ compile_schema_done
  \/ find_child_entity_type_descend
  \/ find_child_entity_type_ambiguous
  \/ find_child_entity_type_not_found
  \/ singleton_already_compiled
  \/ singleton_compile_entity
  \/ singleton_return
  \/ EntityType_compile_begin
  \/ EntityType_compile_base
  \/ EntityType_compile_done
  \/ EntityType_ensure_begin
  \/ EntityType_ensure_return
  \/ compile_type_begin
  \/ compile_type_base
  \/ compile_type_done
  \/ Properties_compile_next
  \/ Properties_compile_merge
  \/ Properties_compile_fail
  \/ stack_overflow

Spec == Init /\ [][Next]_vars

\* compile is one sequential computation: it runs on until it returns or
\* the process aborts
FairSpec == Spec /\ WF_vars(Next)

(***************************************************************************)
(* Properties                                                              *)
(***************************************************************************)
\* the declaration of a name in the documents (as the index finds it)
InputDecl(q) == find_decl([index |-> index_of(FlatSchemas(edmx_docs))], q)

\* entity type q declares a navigation property to entity type r
HasNav(q, r) ==
  /\ InputDecl(q) # None
  /\ \E j \in DOMAIN InputDecl(q)[1].properties :
       InputDecl(q)[1].properties[j].nav /\ InputDecl(q)[1].properties[j].ptype = r

\* every name a declaration refers to (as a base or in a property) is declared
NothingMissing ==
  \A q \in EntityNames \cup TypeNames :
    InputDecl(q) # None =>
      /\ InputDecl(q)[1].base_type # None => InputDecl(InputDecl(q)[1].base_type[1]) # None
      /\ \A j \in DOMAIN InputDecl(q)[1].properties :
           \/ is_simple_type(InputDecl(q)[1].properties[j].ptype)
           \/ InputDecl(InputDecl(q)[1].properties[j].ptype) # None

\* the singleton of the given name is declared with the given type and activated
Activated(name, stype) ==
  /\ name \in singletons
  /\ \E j \in DOMAIN FlatSchemas(edmx_docs) :
       LET s == FlatSchemas(edmx_docs)[j] IN
       /\ s.entity_container # None
       /\ \E k \in DOMAIN s.entity_container[1] :
            s.entity_container[1][k] = Singleton(name, stype)

EntityKeys == DOMAIN result.compiled.entity_types

\* a schema of navigation properties only where A refers to itself, or A and
\* B refer to each other, compiled from a singleton of type A
NavigationCycle ==
  /\ Activated("S1", A)
  /\ NothingMissing
  /\ \A q \in TypeNames : InputDecl(q) = None
  /\ HasNav(A, A) \/ (HasNav(A, B) /\ HasNav(B, A))

\* C1: a schema in which A has a navigation property of type A, or in which
\* A and B have navigation properties to each other, compiles: the compile
\* terminates successfully, with A (and, in the second case, B) among the
\* keys of the entity-type map.
CycleTermination ==
  (result.state = "init" /\ NavigationCycle)
    ~> (/\ result.state = "ok"
        /\ A \in EntityKeys
        /\ (HasNav(A, B) /\ HasNav(B, A)) => B \in EntityKeys)

CycleTerminationWitness ==
  /\ result.state = "ok"
  /\ NavigationCycle
  /\ HasNav(A, B) /\ HasNav(B, A) /\ HasNav(A, A)
  /\ {A, B} \subseteq EntityKeys

\* C2: compile terminates on every input: it returns an IR or an error.
CompileTerminates == <>(result.state \in {"ok", "err"})

\* the keys of the maps of the returned IR
ComplexKeys == DOMAIN result.compiled.complex_types
IRKeys ==
  EntityKeys \cup ComplexKeys \cup DOMAIN result.compiled.type_definitions
    \cup DOMAIN result.compiled.enum_types

NavTargets(v) == {v.nav_properties[j].ptype : j \in DOMAIN v.nav_properties}

\* C3: in the IR of a successful compile the base type and the targets of
\* the navigation properties of every entity type are keys of the entity-type
\* map (or the type itself), and so are the targets of the navigation
\* properties of every complex type, whose base type is a key of the IR.
NoDanglingReferences ==
  result.state = "ok" =>
    /\ \A q \in EntityKeys :
         LET v == result.compiled.entity_types[q] IN
         /\ v.base # None => v.base[1] \in EntityKeys \cup {q}
         /\ NavTargets(v) \subseteq EntityKeys \cup {q}
    /\ \A q \in ComplexKeys :
         LET v == result.compiled.complex_types[q] IN
         /\ v.base # None => v.base[1] \in IRKeys \cup {q}
         /\ NavTargets(v) \subseteq EntityKeys \cup {q}

\* a compiled entity type has a base type and a navigation property to
\* another type, and one refers to itself
NoDanglingReferencesWitness ==
  /\ result.state = "ok"
  /\ \E q \in EntityKeys :
       LET v == result.compiled.entity_types[q] IN
       /\ v.base # None /\ v.base[1] # q
       /\ \E r \in EntityKeys : r # q /\ r \in NavTargets(v)
  /\ \E q \in EntityKeys : q \in NavTargets(result.compiled.entity_types[q])

\* C4: within one compile run no type is compiled twice: the record of a
\* qualified name is produced by at most one resolver invocation.
ExactlyOnceCompilation == \A q \in AllNames : compiled_count[q] <= 1

\* the entity types whose declared base type is q
Derived(q) ==
  {r \in EntityNames : InputDecl(r) # None /\ InputDecl(r)[1].base_type = Some(q)}

\* the type n single-descendant steps below q, or the first type on the way
\* that has no or several derived types
RECURSIVE ChainEnd(_, _)
ChainEnd(q, n) ==
  IF n = 0 \/ Cardinality(Derived(q)) # 1 THEN q
  ELSE ChainEnd(CHOOSE r \in Derived(q) : TRUE, n - 1)

\* the types reachable from the types of S over at most n base-to-derived links
RECURSIVE ReachDown(_, _)
ReachDown(S, n) ==
  IF n = 0 THEN S ELSE ReachDown(S \cup UNION {Derived(q) : q \in S}, n - 1)

SingletonNames == {"S1", "S2"}

\* the container entries of all schemas
DeclaredSingletons ==
  UNION { {<<s.namespace, s.entity_container[1][k]>> : k \in DOMAIN s.entity_container[1]} :
            s \in {t \in {FlatSchemas(edmx_docs)[j] : j \in DOMAIN FlatSchemas(edmx_docs)} :
                     t.entity_container # None} }

\* the declared type of the singleton and the namespace of its schema
DeclaredStype(name) == (CHOOSE e \in DeclaredSingletons : e[2].name = name)[2].stype
DeclaredIn(name) == (CHOOSE e \in DeclaredSingletons : e[2].name = name)[1]

\* the resolution of the singleton of the given name has started
Resolving(name) ==
  /\ Running /\ Top.fn = "singleton" /\ Top.pc = "walk"
  /\ Top.name = name /\ Top.q = DeclaredStype(name)

AmbiguousBelow(name) ==
  Cardinality(Derived(ChainEnd(DeclaredStype(name), Cardinality(EntityNames)))) > 1

AmbiguityError(name) ==
  Error_Schema(DeclaredIn(name),
    Error_Singleton(name,
      Error_AmbigousHeirarchy(ChainEnd(DeclaredStype(name), Cardinality(EntityNames)))))

\* C5: when the declared type of a singleton that is resolved, or a type on
\* the single-descendant chain below it, has more than one derived entity
\* type, the compile returns the error Ambiguous Hierarchy that names this
\* type (wrapped with the singleton and its schema).
AmbiguityDetection ==
  \A name \in SingletonNames :
    (Resolving(name) /\ AmbiguousBelow(name))
      ~> (result.state = "err" /\ result.error = AmbiguityError(name))

\* the ambiguity is below the declared type of the singleton
AmbiguityDetectionWitness ==
  /\ result.state = "err"
  /\ \E name \in SingletonNames :
       /\ AmbiguousBelow(name)
       /\ result.error = AmbiguityError(name)
       /\ ChainEnd(DeclaredStype(name), Cardinality(EntityNames)) # DeclaredStype(name)

IsEntity(q) == InputDecl(q) # None /\ InputDecl(q)[1].kind = "entity"

\* the most specific descendant of the declared type of the singleton
MostSpecific(name) == ChainEnd(DeclaredStype(name), Cardinality(EntityNames))

\* find_child_entity_type returns its type for the singleton that is resolved:
\* the entity type is compiled next or found compiled
WalkReturns ==
  /\ Running /\ Top.fn = "singleton" /\ Top.pc = "walk"
  /\ ret'.tag = "ok" \/ Len(calls') > Len(calls)

\* C6: the type find_child_entity_type returns is the end of the chain of
\* single derived types below the start: a declared entity type, reachable
\* from the start over base-to-derived links, that has no derived type.
MostSpecificDescendant ==
  [][WalkReturns =>
       /\ Top.q = MostSpecific(Top.name)
       /\ Top.q \in ReachDown({DeclaredStype(Top.name)}, Cardinality(EntityNames))
       /\ IsEntity(Top.q)
       /\ Derived(Top.q) = {}]_vars

\* the walk has returned a type two or more levels below the declared type
MostSpecificDescendantWitness ==
  \E i \in DOMAIN calls :
    /\ calls[i].fn = "singleton" /\ calls[i].pc = "wait"
    /\ calls[i].q = MostSpecific(calls[i].name)
    /\ calls[i].q \notin {DeclaredStype(calls[i].name)} \cup Derived(DeclaredStype(calls[i].name))

\* the type and the types of its base chain, n links up
RECURSIVE BaseChain(_, _)
BaseChain(q, n) ==
  IF n = 0 \/ InputDecl(q) = None \/ InputDecl(q)[1].base_type = None THEN {q}
  ELSE {q} \cup BaseChain(InputDecl(q)[1].base_type[1], n - 1)

RootSingletons(name) ==
  SelectSeq(result.compiled.root_singletons, LAMBDA r : r.name = name)

InProgress == {calls[i].name : i \in {j \in DOMAIN calls : calls[j].fn = "singleton"}}

\* C8: only the singletons of the activation set are resolved: no other
\* singleton is ever in resolution, the records of the returned IR and the
\* singleton an error names are activated ones, and with an empty activation
\* set the compile returns the empty IR.
ActivationFilter ==
  /\ InProgress \subseteq singletons
  /\ result.state = "ok" =>
       {result.compiled.root_singletons[j].name : j \in DOMAIN result.compiled.root_singletons}
         \subseteq singletons
  /\ result.state = "err" =>
       /\ Len(result.error) >= 2
       /\ result.error[2][1] = "Singleton"
       /\ result.error[2][3] \in singletons
  /\ singletons = {} =>
       /\ result.state \in {"init", "running", "ok"}
       /\ result.state = "ok" => result.compiled = Compiled_default
       /\ compiled_count = [q \in AllNames |-> 0]

\* a compile has succeeded though a singleton that is not activated has an
\* undeclared type or an ambiguous hierarchy
ActivationFilterWitness ==
  /\ result.state = "ok"
  /\ \E name \in SingletonNames \ singletons :
       \/ ~IsEntity(MostSpecific(name))
       \/ AmbiguousBelow(name)
  /\ singletons # {}

\* C9: a failure of a resolver is never dropped: the error is handed to the
\* caller or ends the compile, which then returns the error and nothing of
\* what was compiled before, and takes no further step (no later singleton
\* is resolved).
NoPartialIR ==
  [][/\ result.state # "err"
     /\ ret.tag = "err" =>
          \/ ret'.tag = "err" /\ Len(calls') < Len(calls)
          \/ result'.state = "err"
     /\ result'.state = "err" =>
          /\ result'.compiled = Compiled_default
          /\ result'.error # <<>>
          /\ calls' = <<>> /\ stack' = <<>> /\ ret' = NoRet]_vars

\* the compile has failed at the second singleton after the entity type of
\* the first one was compiled
NoPartialIRWitness ==
  /\ result.state = "err"
  /\ singletons = SingletonNames
  /\ result.error[2][3] = "S2"
  /\ \E q \in EntityNames : compiled_count[q] > 0

Wrapper(kind, q) == <<kind, q[1], q[2]>>

PropertiesOf(q) == InputDecl(q)[1].properties

RECURSIVE EnsureError(_, _)
RECURSIVE EntityTypeError(_, _)
RECURSIVE TypeError(_, _)
RECURSIVE PropertiesError(_, _)

\* e is an error of EntityType::ensure for the name q: the wrapper of q over
\* Entity Type Not Found or over an error of the compilation of q
EnsureError(q, e) ==
  /\ Len(e) >= 2
  /\ e[1] = Wrapper("EntityType", q)
  /\ IF IsEntity(q) THEN EntityTypeError(q, Tail(e))
     ELSE Tail(e) = Error_EntityTypeNotFound(q)

\* e is an error of EntityType::compile for q: an error of its base type or
\* of one of its properties
EntityTypeError(q, e) ==
  \/ /\ InputDecl(q)[1].base_type # None
     /\ EnsureError(InputDecl(q)[1].base_type[1], e)
  \/ PropertiesError(q, e)

\* e is an error of the properties of q: the wrapper of a declared property
\* over an error of the resolver of its type
PropertiesError(q, e) ==
  /\ Len(e) >= 2
  /\ e[1][1] = "Property"
  /\ \E j \in DOMAIN PropertiesOf(q) :
       /\ PropertiesOf(q)[j].name = e[1][3]
       /\ IF PropertiesOf(q)[j].nav
          THEN EnsureError(PropertiesOf(q)[j].ptype, Tail(e))
          ELSE TypeError(PropertiesOf(q)[j].ptype, Tail(e))

\* e is an error of compile_type for the name q: the wrapper of q over Type
\* Not Found, over the root cause of a type definition or over an error of
\* the base type or of a property of a complex type
TypeError(q, e) ==
  /\ Len(e) >= 2
  /\ e[1] = Wrapper("Type", q)
  /\ IF InputDecl(q) = None \/ IsEntity(q) THEN Tail(e) = Error_TypeNotFound(q)
     ELSE IF InputDecl(q)[1].kind = "typedef"
     THEN /\ Tail(e) = Error_TypeDefinitionOfNotPrimitiveType(InputDecl(q)[1].underlying_type)
          /\ ~is_simple_type(InputDecl(q)[1].underlying_type)
     ELSE /\ InputDecl(q)[1].kind = "complex"
          /\ \/ /\ InputDecl(q)[1].base_type # None
                /\ TypeError(InputDecl(q)[1].base_type[1], Tail(e))
             \/ PropertiesError(q, Tail(e))

\* e is an error of the resolution of the singleton: its wrapper over the
\* root cause of the walk or over the wrapped error of its entity type
SingletonError(name, e) ==
  /\ Len(e) >= 2
  /\ e[1] = <<"Singleton", <<>>, name>>
  /\ IF AmbiguousBelow(name) THEN Tail(e) = Error_AmbigousHeirarchy(MostSpecific(name))
     ELSE IF ~IsEntity(MostSpecific(name))
     THEN Tail(e) = Error_EntityTypeNotFound(MostSpecific(name))
     ELSE /\ Len(e) >= 3
          /\ e[2] = Wrapper("EntityType", MostSpecific(name))
          /\ EntityTypeError(MostSpecific(name), Tail(Tail(e)))

\* C10: the error compile returns is a chain that mirrors the call stack of
\* the failure: the namespace of the schema of the failing singleton, the
\* name of the singleton, one wrapper for every entity type, type and
\* property whose resolution was in progress, and the root cause at the end.
ErrorNesting ==
  result.state = "err" =>
    /\ Len(result.error) >= 3
    /\ result.error[2][3] \in singletons
    /\ result.error[1] = <<"Schema", DeclaredIn(result.error[2][3]), "">>
    /\ SingletonError(result.error[2][3], Tail(result.error))

\* an error of six or more levels with the wrapper of a type in it
ErrorNestingWitness ==
  /\ result.state = "err"
  /\ Len(result.error) >= 6
  /\ \E j \in DOMAIN result.error : result.error[j][1] = "Type"

(***************************************************************************)
(* compile_action: the resolver of a free-standing bound action.  It runs  *)
(* on the same frame chain and calls the same resolvers; the resolver that *)
(* calls it (host) has compiled some types into its frame before.          *)
(***************************************************************************)
Error_NotBoundAction == <<<<"NotBoundAction", <<>>, "">>>>
Error_NoBindingParameterForAction == <<<<"NoBindingParameterForAction", <<>>, "">>>>
Error_ActionReturnType(e) == <<<<"ActionReturnType", <<>>, "">>>> \o e
Error_ActionParameter(name, e) == <<<<"ActionParameter", <<>>, name>>>> \o e

\* faulty variant: the action is stored under the empty name, not under its
\* binding type
new_action_unbound(v) ==
  [Compiled_default EXCEPT !.actions = (NoName :> (v.name :> v))]

\* Compiled::new_action
new_action(v) == [Compiled_default EXCEPT !.actions = (v.binding :> (v.name :> v))]

\* Stack::complex_type_info: the information of a complex type compiled in
\* the frame or in one of its ancestors
complex_type_info(stk, qtype) ==
  IF contains_complex_type(stk, qtype) THEN Some("complex") ELSE None

\* the compiled record of an action
action_record(a, parameters) ==
  [ binding |-> a.parameters[1].ptype, binding_name |-> a.parameters[1].name,
    name |-> a.name, return_type |-> a.return_type, parameters |-> parameters ]

\* the compiled parameter: a plain type or a reference to an entity type
compiled_parameter(p, class) == [name |-> p.name, ptype |-> <<class, p.ptype>>]

with_parameter(c, p, class) ==
  [c EXCEPT !.properties = Append(@, compiled_parameter(p, class)), !.i = @ + 1]

\* faulty variant: every parameter is a plain type
parameter_class_always_type(idx, qtype) == "Type"

\* the class of a parameter of a type that is not primitive
parameter_class(idx, qtype) == IF find_type(idx, qtype) # None THEN "Type" ELSE "Entity"

\* the parameters are looked at after the inert check
compile_action_begin_after_inert(binding) ==
  /\ stack' = Stack_merge(new_frame(stack), Compiled_default)
  /\ ret' = ret
  /\ IF action.return_type = None
     THEN calls' = SetTop([Top EXCEPT !.pc = "params", !.i = 2, !.q = binding])
     ELSE IF ensure_type_is_noop(new_frame(stack), action.return_type[1])
     THEN calls' = SetTop([Top EXCEPT !.pc = "params", !.i = 2, !.q = binding])
     ELSE calls' = PushOver([Top EXCEPT !.pc = "return_type", !.q = binding],
                            Call("type", "start", action.return_type[1]))

\* faulty variant: the binding parameter is looked for before the bound flag
compile_action_begin_parameters_first ==
  /\ Running /\ Top.fn = "action" /\ Top.pc = "start"
  /\ IF action.parameters = <<>>
     THEN /\ ret' = Err(Error_NoBindingParameterForAction)
          /\ calls' = Pop(calls)
          /\ UNCHANGED stack
     ELSE IF ~action.is_bound
     THEN /\ ret' = Err(Error_NotBoundAction)
          /\ calls' = Pop(calls)
          /\ UNCHANGED stack
     ELSE IF complex_type_info(stack, action.parameters[1].ptype) = None
     THEN /\ ret' = Ok(Compiled_default)
          /\ calls' = Pop(calls)
          /\ UNCHANGED stack
     ELSE compile_action_begin_after_inert(action.parameters[1].ptype)
  /\ UNCHANGED <<edmx_docs, singletons, schema_index, result, compiled_count, unit_vars>>

\* faulty variant: an action bound to a type that is not compiled is compiled
compile_action_begin_never_inert ==
  /\ Running /\ Top.fn = "action" /\ Top.pc = "start"
  /\ IF ~action.is_bound
     THEN /\ ret' = Err(Error_NotBoundAction)
          /\ calls' = Pop(calls)
          /\ UNCHANGED stack
     ELSE IF action.parameters = <<>>
     THEN /\ ret' = Err(Error_NoBindingParameterForAction)
          /\ calls' = Pop(calls)
          /\ UNCHANGED stack
     ELSE compile_action_begin_after_inert(action.parameters[1].ptype)
  /\ UNCHANGED <<edmx_docs, singletons, schema_index, result, compiled_count, unit_vars>>

\* compile_action: an action that is not bound and an action without
\* parameters are errors; an action bound to a type that is not a compiled
\* complex type of the frame chain is an empty fragment; else a frame is
\* opened and the return type, if any, is ensured
compile_action_begin ==
  /\ Running /\ Top.fn = "action" /\ Top.pc = "start"
  /\ IF ~action.is_bound
     THEN /\ ret' = Err(Error_NotBoundAction)
          /\ calls' = Pop(calls)
          /\ UNCHANGED stack
     ELSE IF action.parameters = <<>>
     THEN /\ ret' = Err(Error_NoBindingParameterForAction)
          /\ calls' = Pop(calls)
          /\ UNCHANGED stack
     ELSE IF complex_type_info(stack, action.parameters[1].ptype) = None
     THEN /\ ret' = Ok(Compiled_default)
          /\ calls' = Pop(calls)
          /\ UNCHANGED stack
     ELSE compile_action_begin_after_inert(action.parameters[1].ptype)
  /\ UNCHANGED <<edmx_docs, singletons, schema_index, result, compiled_count, unit_vars>>

\* compile_action: the return type is compiled (its fragment is merged) or
\* failed (the error is wrapped as the return type's)
compile_action_return_type ==
  /\ Running /\ Top.fn = "action" /\ Top.pc = "return_type" /\ ret.tag # "none"
  /\ IF ret.tag = "ok"
     THEN /\ stack' = Stack_merge(stack, ret.compiled)
          /\ calls' = SetTop([Top EXCEPT !.pc = "params", !.i = 2])
          /\ ret' = NoRet
     ELSE /\ stack' = Pop(stack)
          /\ calls' = Pop(calls)
          /\ ret' = Err(Error_ActionReturnType(ret.error))
  /\ UNCHANGED <<edmx_docs, singletons, schema_index, result, compiled_count, unit_vars>>

\* compile_action: the next parameter after the binding one: a primitive type
\* needs nothing, a type the index finds is ensured as a type, any other name
\* is ensured as an entity type
compile_action_parameter ==
  /\ Running /\ Top.fn = "action" /\ Top.pc = "params" /\ ret.tag = "none"
  /\ Top.i <= Len(action.parameters)
  /\ LET p == action.parameters[Top.i] IN
     IF is_simple_type(p.ptype)
     THEN /\ calls' = SetTop(with_parameter(Top, p, "Type"))
          /\ stack' = Stack_merge(stack, Compiled_default)
     ELSE IF find_type(schema_index, p.ptype) # None
     THEN IF ensure_type_is_noop(stack, p.ptype)
          THEN /\ calls' = SetTop(with_parameter(Top, p, "Type"))
               /\ stack' = Stack_merge(stack, Compiled_default)
          ELSE /\ calls' = Push(Call("type", "start", p.ptype))
               /\ UNCHANGED stack
     ELSE /\ calls' = Push(Call("ensure", "start", p.ptype))
          /\ UNCHANGED stack
  /\ UNCHANGED <<edmx_docs, singletons, schema_index, ret, result, compiled_count, unit_vars>>

\* compile_action: the type of the parameter is resolved (its fragment is
\* merged and the parameter added) or failed (the error is wrapped with the
\* name of the parameter)
compile_action_parameter_merge ==
  /\ Running /\ Top.fn = "action" /\ Top.pc = "params" /\ ret.tag # "none"
  /\ LET p == action.parameters[Top.i] IN
     IF ret.tag = "ok"
     THEN /\ stack' = Stack_merge(stack, ret.compiled)
          /\ calls' = SetTop(with_parameter(Top, p, parameter_class(schema_index, p.ptype)))
          /\ ret' = NoRet
     ELSE /\ stack' = Pop(stack)
          /\ calls' = Pop(calls)
          /\ ret' = Err(Error_ActionParameter(p.name, ret.error))
  /\ UNCHANGED <<edmx_docs, singletons, schema_index, result, compiled_count, unit_vars>>

\* compile_action: the compiled action is merged into the frame, which is done
compile_action_done ==
  /\ Running /\ Top.fn = "action" /\ Top.pc = "params" /\ ret.tag = "none"
  /\ Top.i > Len(action.parameters)
  /\ ret' = Ok(Stack_done(Stack_merge(stack, new_action(action_record(action, Top.properties)))))
  /\ stack' = Pop(stack)
  /\ calls' = Pop(calls)
  /\ UNCHANGED <<edmx_docs, singletons, schema_index, result, compiled_count, unit_vars>>

(***************************************************************************)
(* The resolver that calls compile_action: it compiles the types of        *)
(* host.types into its frame, then calls compile_action from this frame or *)
(* (host.nested) from a new frame below it, and merges the fragment.       *)
(***************************************************************************)
\* the host compiles its next type
host_compile_type ==
  /\ Running /\ Top.fn = "host" /\ Top.pc = "types" /\ ret.tag = "none"
  /\ Top.i <= Len(host.types)
  /\ calls' = Push(Call("type", "start", host.types[Top.i]))
  /\ UNCHANGED <<edmx_docs, singletons, schema_index, stack, ret, result, compiled_count, unit_vars>>

\* the fragment of the type is merged into the frame of the host; a failure
\* ends the run
host_merge_type ==
  /\ Running /\ Top.fn = "host" /\ Top.pc = "types" /\ ret.tag # "none"
  /\ IF ret.tag = "ok"
     THEN /\ stack' = Stack_merge(stack, ret.compiled)
          /\ calls' = SetTop([Top EXCEPT !.i = @ + 1])
          /\ result' = result
     ELSE /\ stack' = <<>>
          /\ calls' = <<>>
          /\ result' = Finish("err", Compiled_default, ret.error)
  /\ ret' = NoRet
  /\ UNCHANGED <<edmx_docs, singletons, schema_index, compiled_count, unit_vars>>

\* the host calls compile_action
host_compile_action ==
  /\ Running /\ Top.fn = "host" /\ Top.pc = "types" /\ ret.tag = "none"
  /\ Top.i > Len(host.types)
  /\ stack' = IF host.nested THEN new_frame(stack) ELSE stack
  /\ calls' = PushOver([Top EXCEPT !.pc = "action"],
                       [Call("action", "start", NoName) EXCEPT !.name = action.name])
  /\ UNCHANGED <<edmx_docs, singletons, schema_index, ret, result, compiled_count, unit_vars>>

RECURSIVE Stack_done_all(_)
\* the frames are done and merged into their parents, up to the first one
Stack_done_all(stk) ==
  IF Len(stk) = 1 THEN Stack_done(stk)
  ELSE Stack_done_all(Stack_merge(Pop(stk), Stack_done(stk)))

\* the fragment of the action is merged and the run ends with the IR of the
\* host, or with the error of the action
host_done ==
  /\ Running /\ Top.fn = "host" /\ Top.pc = "action" /\ ret.tag # "none"
  /\ result' = IF ret.tag = "ok"
               THEN Finish("ok", Stack_done_all(Stack_merge(stack, ret.compiled)), <<>>)
               ELSE Finish("err", Compiled_default, ret.error)
  /\ stack' = <<>>
  /\ calls' = <<>>
  /\ ret' = NoRet
  /\ UNCHANGED <<edmx_docs, singletons, schema_index, compiled_count, unit_vars>>

Parameter(name, ptype) == [name |-> name, ptype |-> ptype]

ParameterNames == <<"Q1", "Q2", "Q3">>

Parameters(ptypes) == [j \in DOMAIN ptypes |-> Parameter(ParameterNames[j], ptypes[j])]

\* the action declarations: bound or not, without parameters, bound to a
\* complex type, to an entity type or to an undeclared name, with further
\* parameters of primitive, declared and undeclared types
ActionDecls ==
  [ name : {"Act"},
    is_bound : BOOLEAN,
    parameters : {Parameters(ps) : ps \in {<<>>, <<X>>, <<Y>>, <<A>>, <<X, String>>, <<X, Y>>,
                                          <<X, B>>, <<X, M>>, <<Y, String, B>>}},
    return_type : {None, Some(String), Some(Y)} ]

\* the documents of the runs of compile_action: B has the base type A and a
\* property of type X; A has no property or a navigation property to an
\* undeclared name
ActionDocs ==
  Params({PerEntity(None, Some(A), None, None)},
         {PerEntity(a, <<Prop(X)>>, <<>>, <<>>) : a \in {<<>>, <<Nav(M)>>}},
         {Some(ComplexDecl(None, <<>>)), Some(ComplexDecl(None, Props(<<Prop(X)>>)))},
         {None, Some(ComplexDecl(Some(X), <<>>)), Some(EnumDecl)},
         {A}, {B}, {1}, {{}})

Hosts == [types : {<<>>, <<X>>, <<Y>>}, nested : BOOLEAN]

ActionInit ==
  /\ \E p \in ActionDocs :
       /\ edmx_docs = Docs(p)
       /\ schema_index \in SchemaIndex_build(Docs(p))
  /\ singletons = {}
  /\ action \in ActionDecls
  /\ host \in Hosts
  /\ merge_idle
  /\ never_run
  /\ duration_idle
  /\ namespaces_idle
  /\ accounts_idle
  /\ stack = <<Stack_default>>
  /\ calls = <<Call("host", "types", NoName)>>
  /\ ret = NoRet
  /\ result = Finish("running", Compiled_default, <<>>)
  /\ compiled_count = [q \in AllNames |-> 0]

ActionNext ==
  \/ host_compile_type
  \/ host_merge_type
  \/ host_compile_action
  \/ host_done
  \/ compile_action_begin
  \/ compile_action_return_type
  \/ compile_action_parameter
  \/ compile_action_parameter_merge
  \/ compile_action_done
  \/ EntityType_compile_begin
  \/ EntityType_compile_base
  \/ EntityType_compile_done
  \/ EntityType_ensure_begin
  \/ EntityType_ensure_return
  \/ compile_type_begin
  \/ compile_type_base
  \/ compile_type_done
  \/ Properties_compile_next
  \/ Properties_compile_merge
  \/ Properties_compile_fail
  \/ stack_overflow

ActionSpec == ActionInit /\ [][ActionNext]_vars

\* compile_action has returned to the resolver that called it
ActionReturned == calls # <<>> /\ Top.fn = "host" /\ Top.pc = "action" /\ ret.tag # "none"

\* the complex types compiled in a frame of the chain
VisibleComplexTypes == UNION {DOMAIN stack[i].current.complex_types : i \in DOMAIN stack}

\* the calls compile_action has made
ActionCalls == {i \in DOMAIN calls : i > 1 /\ calls[i - 1].fn = "action"}

\* C11: compile_action returns Not Bound Action for an action that is not
\* bound, whatever its parameters, and No Binding Parameter For Action for a
\* bound action without parameters; it resolves nothing and no fragment
\* reaches the IR.
ActionBindingRules ==
  /\ ActionReturned /\ ~action.is_bound => ret = Err(Error_NotBoundAction)
  /\ ActionReturned /\ action.is_bound /\ action.parameters = <<>> =>
       ret = Err(Error_NoBindingParameterForAction)
  /\ ~action.is_bound \/ action.parameters = <<>> =>
       /\ ActionCalls = {}
       /\ result.state # "ok"
       /\ \A i \in DOMAIN stack : stack[i].current.actions = EmptyMap

\* an action that is not bound is rejected though its binding type is
\* compiled and it has further parameters
ActionBindingRulesWitness ==
  /\ ActionReturned
  /\ ~action.is_bound
  /\ Len(action.parameters) >= 2
  /\ action.parameters[1].ptype \in VisibleComplexTypes
  /\ ret = Err(Error_NotBoundAction)

\* the action is bound to a type that is not compiled as a complex type
Inert ==
  /\ action.is_bound
  /\ action.parameters # <<>>
  /\ action.parameters[1].ptype \notin VisibleComplexTypes

\* C12: a bound action whose binding type is not compiled as a complex type
\* in a frame of the chain returns the empty fragment and no error, whatever
\* its return type and further parameters, which are not resolved; the IR
\* gets no entry in its action map.
InertActions ==
  /\ ActionReturned /\ Inert => ret = Ok(Compiled_default)
  /\ calls # <<>> /\ Inert => ActionCalls = {}
  /\ (result.state = "ok" /\ action.parameters # <<>>
        /\ action.parameters[1].ptype \notin DOMAIN result.compiled.complex_types) =>
       result.compiled.actions = EmptyMap

\* the inert action has a parameter of an undeclared type
InertActionsWitness ==
  /\ ActionReturned
  /\ Inert
  /\ ret = Ok(Compiled_default)
  /\ \E j \in DOMAIN action.parameters : action.parameters[j].ptype = M
  /\ action.return_type # None

(***************************************************************************)
(* Compiled::merge as an operation on IR fragments.  The fragments are     *)
(* built by the constructors of Compiled and by merge itself; some of them *)
(* hold different records under one key.                                   *)
(***************************************************************************)
PlainDecl == [base_type |-> None, insertable |-> FALSE]

InsertableDecl == [base_type |-> None, insertable |-> TRUE]

Members == [name |-> "Members", ptype |-> B, expandable |-> TRUE]

BoundAction(name, binding, ptypes) ==
  action_record([name |-> name, return_type |-> None,
                 parameters |-> Parameters(<<binding>> \o ptypes)],
                [j \in 1..Len(ptypes) |-> compiled_parameter(Parameter(ParameterNames[j + 1], ptypes[j]), "Type")])

ActionFragments ==
  { new_action(BoundAction("Act", X, <<>>)),
    new_action(BoundAction("Act", X, <<String>>)),
    new_action(BoundAction("Reset", X, <<>>)),
    new_action(BoundAction("Act", Y, <<>>)) }

TypeFragments ==
  { new_entity_type(entity_type_record(A, PlainDecl, <<>>, <<>>)),
    new_entity_type(entity_type_record(A, PlainDecl, <<compiled_property(Props(<<Prop(X)>>)[1])>>, <<>>)),
    new_entity_type(entity_type_record(M, InsertableDecl, <<>>, <<Members>>)),
    new_complex_type(complex_type_record(X, PlainDecl, <<>>, <<>>)),
    new_type_definition(type_definition_record(Y, [underlying_type |-> String])),
    new_enum_type(enum_type_record(Y)),
    new_singleton(singleton_record("S1", A)) }

MergeFragments ==
  {Compiled_default} \cup ActionFragments \cup TypeFragments
    \cup { Compiled_merge(x, y) :
             x \in { new_entity_type(entity_type_record(A, PlainDecl, <<>>, <<>>)),
                     new_complex_type(complex_type_record(X, PlainDecl, <<>>, <<>>)) },
             y \in { new_action(BoundAction("Act", X, <<>>)),
                     new_action(BoundAction("Reset", X, <<>>)) } }

NotMerged == [ab |-> None, ab_c |-> None, bc |-> None, a_bc |-> None, ba |-> None]

\* self.merge(b)
merge_ab ==
  /\ merged # <<>> /\ merged.ab = None
  /\ merged' = [merged EXCEPT !.ab = Some(Compiled_merge(fragments[1], fragments[2]))]
  /\ UNCHANGED <<compiler_vars, action, host, fragments, first_run, input, parsed, shown, bmc, account_service, namespaces>>

\* self.merge(b).merge(c)
merge_ab_c ==
  /\ merged # <<>> /\ merged.ab # None /\ merged.ab_c = None
  /\ merged' = [merged EXCEPT !.ab_c = Some(Compiled_merge(merged.ab[1], fragments[3]))]
  /\ UNCHANGED <<compiler_vars, action, host, fragments, first_run, input, parsed, shown, bmc, account_service, namespaces>>

\* b.merge(c)
merge_bc ==
  /\ merged # <<>> /\ merged.bc = None
  /\ merged' = [merged EXCEPT !.bc = Some(Compiled_merge(fragments[2], fragments[3]))]
  /\ UNCHANGED <<compiler_vars, action, host, fragments, first_run, input, parsed, shown, bmc, account_service, namespaces>>

\* self.merge(b.merge(c))
merge_a_bc ==
  /\ merged # <<>> /\ merged.bc # None /\ merged.a_bc = None
  /\ merged' = [merged EXCEPT !.a_bc = Some(Compiled_merge(fragments[1], merged.bc[1]))]
  /\ UNCHANGED <<compiler_vars, action, host, fragments, first_run, input, parsed, shown, bmc, account_service, namespaces>>

\* b.merge(self)
merge_ba ==
  /\ merged # <<>> /\ merged.ba = None
  /\ merged' = [merged EXCEPT !.ba = Some(Compiled_merge(fragments[2], fragments[1]))]
  /\ UNCHANGED <<compiler_vars, action, host, fragments, first_run, input, parsed, shown, bmc, account_service, namespaces>>

MergeInit ==
  /\ edmx_docs = <<>>
  /\ singletons = {}
  /\ schema_index = [index |-> EmptyMap, child_map |-> EmptyMap]
  /\ stack = <<>>
  /\ calls = <<>>
  /\ ret = NoRet
  /\ result = Finish("init", Compiled_default, <<>>)
  /\ compiled_count = [q \in AllNames |-> 0]
  /\ action = None
  /\ host = None
  /\ never_run
  /\ duration_idle
  /\ namespaces_idle
  /\ accounts_idle
  /\ fragments \in MergeFragments \X MergeFragments \X MergeFragments
  /\ merged = NotMerged

MergeNext == merge_ab \/ merge_ab_c \/ merge_bc \/ merge_a_bc \/ merge_ba

MergeSpec == MergeInit /\ [][MergeNext]_vars

\* C13: merge is associative: merge(merge(a, b), c) and merge(a, merge(b, c))
\* are the same IR, in every map, in the action maps of every bound type, in
\* the creatable-type set and in the root-singleton list, also when the
\* fragments hold different records under one key.
MergeAssociative ==
  (merged # <<>> /\ merged.ab_c # None /\ merged.a_bc # None) =>
    /\ merged.ab_c = merged.a_bc
    /\ \A q \in DOMAIN merged.ab_c[1].actions :
         merged.ab_c[1].actions[q] = merged.a_bc[1].actions[q]

MergeAssociativeWitness ==
  /\ merged # <<>> /\ merged.ab_c # None /\ merged.a_bc # None
  /\ merged.ab_c = merged.a_bc
  /\ \A j \in 1..3 : X \in DOMAIN fragments[j].actions
  /\ fragments[1] # fragments[2] /\ fragments[2] # fragments[3] /\ fragments[1] # fragments[3]
  /\ "Act" \in DOMAIN fragments[1].actions[X] \cap DOMAIN fragments[3].actions[X]
  /\ fragments[1].actions[X]["Act"] # fragments[3].actions[X]["Act"]
  /\ DOMAIN merged.ab_c[1].actions[X] = {"Act", "Reset"}
  /\ merged.ab_c[1].complex_types # EmptyMap

\* the five maps and the creatable-type set of an IR
MergedFields(c) ==
  <<c.entity_types, c.complex_types, c.type_definitions, c.enum_types, c.actions,
    c.creatable_entity_types>>

BothOrders == merged # <<>> /\ merged.ab # None /\ merged.ba # None

\* C14 as stated: merge(a, b) and merge(b, a) are the same in every map and in
\* the creatable-type set, for all fragments a and b.
MergeCommutative == BothOrders => MergedFields(merged.ab[1]) = MergedFields(merged.ba[1])

\* two maps hold the same value under every key they share
AgreeMaps(f, g) == \A k \in DOMAIN f \cap DOMAIN g : f[k] = g[k]

\* two fragments hold the same record under every key they share
Agree(a, b) ==
  /\ AgreeMaps(a.entity_types, b.entity_types)
  /\ AgreeMaps(a.complex_types, b.complex_types)
  /\ AgreeMaps(a.type_definitions, b.type_definitions)
  /\ AgreeMaps(a.enum_types, b.enum_types)
  /\ \A q \in DOMAIN a.actions \cap DOMAIN b.actions : AgreeMaps(a.actions[q], b.actions[q])

\* C14: merge is commutative on fragments that hold the same record under
\* every key they share: merge(a, b) and merge(b, a) are then the same in every
\* map (entity types, complex types, type definitions, enums, actions) and in
\* the creatable-type set; fragments that differ under a shared key give two
\* different results, each keeping the record of its second argument.
MergeCommutativeOnAgreeing ==
  /\ (BothOrders /\ Agree(fragments[1], fragments[2])) =>
       MergedFields(merged.ab[1]) = MergedFields(merged.ba[1])
  /\ (BothOrders /\ ~Agree(fragments[1], fragments[2])) =>
       /\ MergedFields(merged.ab[1]) # MergedFields(merged.ba[1])
       /\ Agree(merged.ab[1], fragments[2])
       /\ Agree(merged.ba[1], fragments[1])

MergeCommutativeOnAgreeingWitness ==
  /\ BothOrders /\ Agree(fragments[1], fragments[2])
  /\ fragments[1] # fragments[2]
  /\ DOMAIN fragments[1].entity_types \cap DOMAIN fragments[2].entity_types # {}
  /\ X \in DOMAIN fragments[1].actions \cap DOMAIN fragments[2].actions
  /\ DOMAIN fragments[1].actions[X] # DOMAIN fragments[2].actions[X]
  /\ MergedFields(merged.ab[1]) = MergedFields(merged.ba[1])
  /\ DOMAIN merged.ab[1].actions[X] = {"Act", "Reset"}

(***************************************************************************)
(* Two runs of compile on the same documents and the same activation set.  *)
(***************************************************************************)
\* the first run has returned: its outcome and the index it built are kept
\* and compile is called again with the same arguments
compile_again ==
  /\ result.state \in {"ok", "err"} /\ first_run = None
  /\ first_run' = Some([outcome |-> result, schema_index |-> schema_index])
  /\ schema_index' = [index |-> EmptyMap, child_map |-> EmptyMap]
  /\ stack' = <<>>
  /\ calls' = <<>>
  /\ ret' = NoRet
  /\ result' = Finish("init", Compiled_default, <<>>)
  /\ compiled_count' = [q \in AllNames |-> 0]
  /\ UNCHANGED <<edmx_docs, singletons, action, host, fragments, merged, input, parsed, shown, bmc, account_service, namespaces>>

TwiceNext == Next \/ compile_again

TwiceSpec == Init /\ [][TwiceNext]_vars

BothReturned == first_run # None /\ result.state \in {"ok", "err"}

\* C15: two runs of compile on the same documents and the same activation set
\* have the same outcome: the same error chain, or IRs with the same keys and
\* the same record under every key, whatever the iteration orders of the hash
\* maps of types were in the two runs.
Determinism ==
  BothReturned =>
    /\ result.state = first_run[1].outcome.state
    /\ result.error = first_run[1].outcome.error
    /\ result.compiled = first_run[1].outcome.compiled
    /\ \A f \in {"entity_types", "complex_types", "type_definitions", "enum_types", "actions"} :
         DOMAIN result.compiled[f] = DOMAIN first_run[1].outcome.compiled[f]

DeterminismWitness ==
  /\ BothReturned
  /\ schema_index # first_run[1].schema_index
  /\ result = first_run[1].outcome
  /\ result.state = "err"
  /\ \E name \in singletons : result.error = AmbiguityError(name)

\* compile_type is about to compile a type definition
TypeDefinitionAtTop ==
  /\ Running /\ Top.fn = "type" /\ Top.pc = "start"
  /\ find_type(schema_index, Top.q) # None
  /\ find_type(schema_index, Top.q)[1].kind = "typedef"

UnderlyingAtTop == find_type(schema_index, Top.q)[1].underlying_type

\* every type definition of the fragment has an underlying type in Edm
PrimitiveBackedIn(c) ==
  \A q \in DOMAIN c.type_definitions : Namespace_is_edm(c.type_definitions[q].underlying_type[1])

\* the root cause of an error chain
RootCause(e) == <<e[Len(e)]>>

\* C16: compiling a type definition whose underlying type is not in the Edm
\* namespace fails with TypeDefinitionOfNotPrimitiveType of that underlying
\* type, and one whose underlying type is in Edm gives its record; so every
\* type definition in a frame, in a returned fragment and in the returned IR has
\* an underlying type in the Edm namespace.
PrimitiveBackedTypeDefinitions ==
  /\ [][ TypeDefinitionAtTop =>
           IF Namespace_is_edm(UnderlyingAtTop[1])
           THEN /\ ret'.tag = "ok"
                /\ DOMAIN ret'.compiled.type_definitions = {Top.q}
           ELSE /\ ret'.tag = "err"
                /\ RootCause(ret'.error) = Error_TypeDefinitionOfNotPrimitiveType(UnderlyingAtTop)
                /\ ret'.compiled = Compiled_default
                /\ stack' = stack ]_vars
  /\ [](/\ \A i \in DOMAIN stack : PrimitiveBackedIn(stack[i].current)
        /\ PrimitiveBackedIn(ret.compiled)
        /\ PrimitiveBackedIn(result.compiled))

PrimitiveBackedTypeDefinitionsWitness ==
  /\ result.state = "err"
  /\ InputDecl(X) # None /\ InputDecl(X)[1].kind = "typedef"
  /\ ~Namespace_is_edm(InputDecl(X)[1].underlying_type[1])
  /\ RootCause(result.error) = Error_TypeDefinitionOfNotPrimitiveType(InputDecl(X)[1].underlying_type)

(***************************************************************************)
(* EdmDuration::from_str.  A string is a sequence of characters; a value   *)
(* is a sign and a number of seconds, kept as whole seconds and a fraction *)
(* in units of 10^-DecimalScale.                                           *)
(***************************************************************************)
\* the characters of the strings considered
DurationChars == {"-", "P", "D", "T", "H", "M", "S", "1", ".", "X"}

Digits == <<"0", "1", "2", "3", "4", "5", "6", "7", "8", "9">>

\* char::is_ascii_digit
is_ascii_digit(ch) == \E j \in DOMAIN Digits : Digits[j] = ch

DigitValue(ch) == (CHOOSE j \in DOMAIN Digits : Digits[j] = ch) - 1

\* the fractional digits the model keeps
DecimalScale == 3

RECURSIVE Pow10(_)
Pow10(n) == IF n = 0 THEN 1 ELSE 10 * Pow10(n - 1)

RECURSIVE DigitsValue(_)
DigitsValue(ds) ==
  IF ds = <<>> THEN 0 ELSE 10 * DigitsValue(SubSeq(ds, 1, Len(ds) - 1)) + DigitValue(ds[Len(ds)])

\* the position of the first character of s that fails the test, or Len(s) + 1
RECURSIVE FirstNot(_, _, _)
FirstNot(s, i, test) ==
  IF i > Len(s) \/ ~test[s[i]] THEN i ELSE FirstNot(s, i + 1, test)

IsDigit == [ch \in DurationChars \cup {Digits[j] : j \in DOMAIN Digits} |-> is_ascii_digit(ch)]

IsDigitOrPoint == [ch \in DOMAIN IsDigit |-> is_ascii_digit(ch) \/ ch = "."]

\* EdmDuration::take_digits: the leading digits and points, the character
\* after them (if any) and the characters after that one
take_digits(chars) ==
  LET i == FirstNot(chars, 1, IsDigitOrPoint) IN
  IF i > Len(chars)
  THEN [digits |-> chars, next |-> None, rest |-> <<>>]
  ELSE [digits |-> SubSeq(chars, 1, i - 1), next |-> Some(chars[i]),
        rest |-> SubSeq(chars, i + 1, Len(chars))]

Decimal_ZERO == [whole |-> 0, frac |-> 0]

\* Decimal::checked_add within the range of the strings considered
Decimal_add(x, y) ==
  [ whole |-> x.whole + y.whole + ((x.frac + y.frac) \div Pow10(DecimalScale)),
    frac |-> (x.frac + y.frac) % Pow10(DecimalScale) ]

\* d * Decimal::from(mul) for the number with the integer digits int and the
\* fractional digits fr
Decimal_times(int, fr, mul) ==
  LET f == DigitsValue(fr) * mul * Pow10(DecimalScale - Len(fr)) IN
  [ whole |-> DigitsValue(int) * mul + (f \div Pow10(DecimalScale)),
    frac |-> f % Pow10(DecimalScale) ]

\* Decimal::from_str_exact and the multiplication of to_decimal: the values
\* it may return.  Digits with at most one point between them are a number;
\* no digit at all or two points are an error; a point with no digit before
\* or after it is left to the decimal library, either outcome is possible
to_decimal(val, mul) ==
  LET p == FirstNot(val, 1, IsDigit)
      int == SubSeq(val, 1, p - 1)
      fr == SubSeq(val, p + 1, Len(val))
      points == Cardinality({j \in DOMAIN val : val[j] = "."})
  IN IF points > 1 \/ points = Len(val) THEN {None}
     ELSE IF int # <<>> /\ (points = 0 \/ fr # <<>>) THEN {Some(Decimal_times(int, fr, mul))}
     ELSE {None, Some(Decimal_times(int, fr, mul))}

InvalidEdmDuration == [pc |-> "err", neg |-> FALSE, result |-> Decimal_ZERO, chars |-> <<>>]

EdmDuration(neg, v) == [pc |-> "ok", neg |-> neg, result |-> v, chars |-> <<>>]

\* from_str: the sign and the P
from_str_sign ==
  /\ parsed # <<>> /\ parsed.pc = "start"
  /\ parsed' =
       IF input = <<>> THEN InvalidEdmDuration
       ELSE IF input[1] = "-"
       THEN IF Len(input) >= 2 /\ input[2] = "P"
            THEN [pc |-> "days", neg |-> TRUE, result |-> Decimal_ZERO,
                  chars |-> SubSeq(input, 3, Len(input))]
            ELSE InvalidEdmDuration
       ELSE IF input[1] = "P"
            THEN [pc |-> "days", neg |-> FALSE, result |-> Decimal_ZERO, chars |-> Tail(input)]
            ELSE InvalidEdmDuration
  /\ UNCHANGED <<compiler_vars, action, host, fragments, merged, first_run, input, shown, bmc, account_service, namespaces>>

\* from_str: the match on the character after the first run of digits
from_str_days ==
  /\ parsed # <<>> /\ parsed.pc = "days"
  /\ LET t == take_digits(parsed.chars) IN
     IF t.next = Some("T")
     THEN parsed' = [parsed EXCEPT !.pc = "time", !.chars = t.rest]
     ELSE IF t.next = Some("D") /\ t.rest = <<>>
     THEN \E d \in to_decimal(t.digits, 3600 * 24) :
            parsed' = IF d = None THEN InvalidEdmDuration ELSE EdmDuration(parsed.neg, d[1])
     ELSE IF t.next = Some("D") /\ t.rest[1] = "T"
     THEN \E d \in to_decimal(t.digits, 3600 * 24) :
            parsed' = IF d = None THEN InvalidEdmDuration
                      ELSE [parsed EXCEPT !.pc = "time", !.chars = Tail(t.rest),
                                          !.result = Decimal_add(@, d[1])]
     ELSE parsed' = InvalidEdmDuration
  /\ UNCHANGED <<compiler_vars, action, host, fragments, merged, first_run, input, shown, bmc, account_service, namespaces>>

\* the multiplier of a designator of the time part
time_multiplier(ch) ==
  IF ch = "H" THEN Some(3600) ELSE IF ch = "M" THEN Some(60) ELSE IF ch = "S" THEN Some(1) ELSE None

\* from_str: one iteration of the loop that ends with a designator
from_str_time ==
  /\ parsed # <<>> /\ parsed.pc = "time"
  /\ LET t == take_digits(parsed.chars) IN
     /\ t.next # None
     /\ IF time_multiplier(t.next[1]) = None
        THEN parsed' = InvalidEdmDuration
        ELSE \E d \in to_decimal(t.digits, time_multiplier(t.next[1])[1]) :
               parsed' = IF d = None THEN InvalidEdmDuration
                         ELSE [parsed EXCEPT !.chars = t.rest, !.result = Decimal_add(@, d[1])]
  /\ UNCHANGED <<compiler_vars, action, host, fragments, merged, first_run, input, shown, bmc, account_service, namespaces>>

\* from_str: no character is left after the digits, the loop ends
from_str_break ==
  /\ parsed # <<>> /\ parsed.pc = "time"
  /\ take_digits(parsed.chars).next = None
  /\ parsed' = EdmDuration(parsed.neg, parsed.result)
  /\ UNCHANGED <<compiler_vars, action, host, fragments, merged, first_run, input, shown, bmc, account_service, namespaces>>

\* the longest string of the enumerated inputs
MaxDurationLen == 4

\* longer strings: the ones of the tests of the module and some with the
\* designators repeated or out of order
DurationExamples ==
  { <<"P", "T", "1", "H", "2", "M", "3", "S">>,
    <<"P", "1", "D", "T", "1", "H">>,
    <<"P", "T", "0", ".", "2", "5", "S">>,
    <<"P", "T", "1", ".", "5", "M">>,
    <<"-", "P", "T", "2", "M">>,
    <<"P", "T", "1", "S", "1", "H">>,
    <<"P", "T", "1", "H", "1", "H">>,
    <<"P", "1", "D", "T", "1", "M", "5">>,
    <<"P", "1", "D", "1", "H">> }

DurationInputs ==
  UNION {[1..n -> DurationChars] : n \in 0..MaxDurationLen} \cup DurationExamples

DurationInit ==
  /\ edmx_docs = <<>>
  /\ singletons = {}
  /\ schema_index = [index |-> EmptyMap, child_map |-> EmptyMap]
  /\ stack = <<>>
  /\ calls = <<>>
  /\ ret = NoRet
  /\ result = Finish("init", Compiled_default, <<>>)
  /\ compiled_count = [q \in AllNames |-> 0]
  /\ action = None
  /\ host = None
  /\ merge_idle
  /\ never_run
  /\ accounts_idle
  /\ namespaces_idle
  /\ input \in DurationInputs
  /\ shown = <<>>
  /\ parsed = [pc |-> "start", neg |-> FALSE, result |-> Decimal_ZERO, chars |-> input]

DurationNext == from_str_sign \/ from_str_days \/ from_str_time \/ from_str_break

DurationSpec == DurationInit /\ [][DurationNext]_vars

\* <n>: digits with at most one point among them (whether a number may begin
\* or end with the point is left open, as in to_decimal)
IsNumber(s) ==
  /\ \A j \in DOMAIN s : IsDigitOrPoint[s[j]]
  /\ Cardinality({j \in DOMAIN s : s[j] = "."}) <= 1
  /\ \E j \in DOMAIN s : IsDigit[s[j]]

\* what is left of s after a number and the designator d at its start
AfterPart(s, d) ==
  { SubSeq(s, k + 1, Len(s)) :
      k \in {k \in 2..Len(s) : s[k] = d /\ IsNumber(SubSeq(s, 1, k - 1))} }

\* the strings of ss with and without such a part at their start
OptionalPart(ss, d) == ss \cup UNION {AfterPart(s, d) : s \in ss}

\* str has the form [-]P[<n>D][T[<n>H][<n>M][<n>S]] with a day part or the T
WellFormedDuration(str) ==
  LET unsigned == IF str # <<>> /\ str[1] = "-" THEN Tail(str) ELSE str IN
  /\ unsigned # <<>> /\ unsigned[1] = "P"
  /\ \E r \in OptionalPart({Tail(unsigned)}, "D") :
       \/ r = <<>> /\ Tail(unsigned) # <<>>
       \/ /\ r # <<>> /\ r[1] = "T"
          /\ <<>> \in OptionalPart(OptionalPart(OptionalPart({Tail(r)}, "H"), "M"), "S")

\* C17: from_str returns a duration only for a string of the form
\* [-]P[<n>D][T[<n>H][<n>M][<n>S]] with at least a day part or the T
\* designator; every other string yields an error.
MalformedRejected == (parsed # <<>> /\ parsed.pc = "ok") => WellFormedDuration(input)

(***************************************************************************)
(* The account service and its read patches.  A JSON value is a pair of    *)
(* its kind and its content; an object is a map from member names to JSON  *)
(* values.                                                                 *)
(***************************************************************************)
JsonNull == <<"null">>
JsonString(text) == <<"string", text>>
JsonArray(items) == <<"array", items>>
JsonObject(members) == <<"object", members>>

\* faulty variant: the default replaces the value the payload came with
append_default_account_type_overwriting(v) ==
  IF v[1] = "object"
  THEN JsonObject(("AccountTypes" :> JsonArray(<<JsonString("Redfish")>>)) @@ v[2])
  ELSE v

\* append_default_account_type: entry("AccountTypes").or_insert([Redfish])
append_default_account_type(v) ==
  IF v[1] = "object"
  THEN JsonObject(v[2] @@ ("AccountTypes" :> JsonArray(<<JsonString("Redfish")>>)))
  ELSE v

\* ServiceRoot::bug_no_account_type_in_accounts
bug_no_account_type_in_accounts(root) == root.vendor = Some(Some("HPE"))

\* the patches AccountService::new collects
account_patches(root) ==
  IF bug_no_account_type_in_accounts(root) THEN <<"append_default_account_type">> ELSE <<>>

\* the closure of AccountService::new: the fold of the patches over the value
RECURSIVE ReadPatchFn(_, _)
ReadPatchFn(patches, v) ==
  IF patches = <<>> THEN v
  ELSE ReadPatchFn(Tail(patches), append_default_account_type(v))

\* the members of the AccountTypes enumeration
AccountTypeNames == {"Redfish", "SNMP", "OEM"}

\* the payload deserializes to a ManagerAccount: an object with the
\* required members, AccountTypes an array of names of the enumeration
is_manager_account(v) ==
  /\ v[1] = "object"
  /\ {"@odata.id", "Id", "Name", "AccountTypes"} \subseteq DOMAIN v[2]
  /\ v[2]["AccountTypes"][1] = "array"
  /\ \A j \in DOMAIN v[2]["AccountTypes"][2] :
       /\ v[2]["AccountTypes"][2][j][1] = "string"
       /\ v[2]["AccountTypes"][2][j][2] \in AccountTypeNames

ManagerAccount(v) ==
  [ id |-> v[2]["@odata.id"][2],
    user_name |-> v[2]["UserName"][2],
    account_types |-> [j \in DOMAIN v[2]["AccountTypes"][2] |-> v[2]["AccountTypes"][2][j][2]] ]

Expanded(account) == <<"Expanded", account>>
Reference(id) == <<"Reference", id>>

\* an object with @odata.id as its only member
is_reference(v) == v[1] = "object" /\ DOMAIN v[2] = {"@odata.id"}

\* serde_json::from_value to NavProperty<ManagerAccount>
nav_property_from_value(v) ==
  IF is_manager_account(v) THEN Some(Expanded(ManagerAccount(v)))
  ELSE IF is_reference(v) THEN Some(Reference(v[2]["@odata.id"][2]))
  ELSE None

\* serde_json::from_value to ManagerAccount
manager_account_from_value(v) ==
  IF is_manager_account(v) THEN Some(ManagerAccount(v)) ELSE None

\* Payload::to_target: the patch is applied, then the value is deserialized
to_target(payload, patches) == manager_account_from_value(ReadPatchFn(patches, payload))

to_target_nav(payload, patches) == nav_property_from_value(ReadPatchFn(patches, payload))

\* the members the BMC returns for the collection: expanded or references
collection_members(b) ==
  IF b.expand THEN b.accounts
  ELSE [j \in DOMAIN b.accounts |-> JsonObject("@odata.id" :> b.accounts[j][2]["@odata.id"])]

ServiceState(pc, patch_fn, collection, data, error) ==
  [ pc |-> pc, account_read_patch_fn |-> patch_fn, collection |-> collection,
    data |-> data, error |-> error ]

\* ServiceRoot::account_service with AccountService::new
AccountService_new ==
  /\ account_service # <<>> /\ account_service.pc = "root"
  /\ account_service' =
       ServiceState("service",
                    IF account_patches(bmc) = <<>> THEN None ELSE Some(account_patches(bmc)),
                    <<>>, <<>>, None)
  /\ UNCHANGED <<compiler_vars, action, host, fragments, merged, first_run, input, parsed, shown, bmc, namespaces>>

\* AccountService::accounts with CollectionWithPatch::read_collection: with a
\* patch every member payload is patched and deserialized, without one the
\* collection is deserialized as the BMC sent it
accounts ==
  /\ account_service # <<>> /\ account_service.pc = "service"
  /\ LET patch_fn == account_service.account_read_patch_fn
         patches == IF patch_fn = None THEN <<>> ELSE patch_fn[1]
         members == [j \in DOMAIN bmc.accounts |-> to_target_nav(collection_members(bmc)[j], patches)]
     IN account_service' =
          IF \E j \in DOMAIN members : members[j] = None
          THEN [account_service EXCEPT !.pc = "failed",
                  !.error = Some(<<"accounts", IF patch_fn = None THEN "Bmc" ELSE "Json">>)]
          ELSE [account_service EXCEPT !.pc = "collection",
                  !.collection = [j \in DOMAIN members |-> members[j][1]]]
  /\ UNCHANGED <<compiler_vars, action, host, fragments, merged, first_run, input, parsed, shown, bmc, namespaces>>

\* the payload the BMC holds for the account with the id
account_payload(b, id) ==
  b.accounts[CHOOSE j \in DOMAIN b.accounts : b.accounts[j][2]["@odata.id"][2] = id]

\* AccountCollection::all_accounts_data: an expanded member is taken as it
\* is, a reference is read from the BMC
all_accounts_data ==
  /\ account_service # <<>> /\ account_service.pc = "collection"
  /\ LET data == [j \in DOMAIN account_service.collection |->
                    IF account_service.collection[j][1] = "Expanded"
                    THEN Some(account_service.collection[j][2])
                    ELSE manager_account_from_value(
                           account_payload(bmc, account_service.collection[j][2]))]
     IN account_service' =
          IF \E j \in DOMAIN data : data[j] = None
          THEN [account_service EXCEPT !.pc = "failed", !.error = Some(<<"all_accounts_data", "Bmc">>)]
          ELSE [account_service EXCEPT !.pc = "accounts", !.data = [j \in DOMAIN data |-> data[j][1]]]
  /\ UNCHANGED <<compiler_vars, action, host, fragments, merged, first_run, input, parsed, shown, bmc, namespaces>>

\* the account in the response of the BMC, read with or without the patch
read_response(op, pc) ==
  LET patch_fn == account_service.account_read_patch_fn
      account == to_target(bmc.response, IF patch_fn = None THEN <<>> ELSE patch_fn[1])
  IN account_service' =
       IF account = None
       THEN [account_service EXCEPT !.pc = "failed",
               !.error = Some(<<op, IF patch_fn = None THEN "Bmc" ELSE "Json">>)]
       ELSE [account_service EXCEPT !.pc = pc, !.data = <<account[1]>>]

\* AccountCollection::create_account with CreateWithPatch::create_with_patch
create_account ==
  /\ account_service # <<>> /\ account_service.pc = "collection"
  /\ read_response("create_account", "created")
  /\ UNCHANGED <<compiler_vars, action, host, fragments, merged, first_run, input, parsed, shown, bmc, namespaces>>

\* Account::update with UpdateWithPatch::update_with_patch
update ==
  /\ account_service # <<>> /\ account_service.pc = "accounts"
  /\ read_response("update", "updated")
  /\ UNCHANGED <<compiler_vars, action, host, fragments, merged, first_run, input, parsed, shown, bmc, namespaces>>

\* the most accounts of the BMC
MaxAccounts == 2

\* an account payload; types is the AccountTypes member, if any
AccountPayload(id, types) ==
  JsonObject(("@odata.id" :> JsonString(id)) @@ ("Id" :> JsonString(id))
               @@ ("Name" :> JsonString("User Account"))
               @@ ("UserName" :> JsonString("Administrator"))
               @@ (IF types = None THEN EmptyMap ELSE ("AccountTypes" :> types[1])))

AccountTypesValues ==
  { None, Some(JsonArray(<<>>)), Some(JsonArray(<<JsonString("Redfish")>>)),
    Some(JsonArray(<<JsonString("SNMP"), JsonString("OEM")>>)), Some(JsonNull) }

AccountIds == <<"1", "2", "3">>

Vendors == {None, Some(None), Some(Some("HPE")), Some(Some("Contoso")), Some(Some("Dell"))}

Bmcs ==
  { [vendor |-> v, expand |-> e, response |-> r,
     accounts |-> [j \in 1..n |-> AccountPayload(AccountIds[j], types[j])]] :
      v \in Vendors, e \in BOOLEAN,
      r \in {AccountPayload("3", t) : t \in AccountTypesValues} \cup {JsonString("Created")},
      n \in 1..MaxAccounts, types \in [1..MaxAccounts -> AccountTypesValues] }

AccountsInit ==
  /\ edmx_docs = <<>>
  /\ singletons = {}
  /\ schema_index = [index |-> EmptyMap, child_map |-> EmptyMap]
  /\ stack = <<>>
  /\ calls = <<>>
  /\ ret = NoRet
  /\ result = Finish("init", Compiled_default, <<>>)
  /\ compiled_count = [q \in AllNames |-> 0]
  /\ action = None
  /\ host = None
  /\ merge_idle
  /\ never_run
  /\ duration_idle
  /\ namespaces_idle
  /\ bmc \in Bmcs
  /\ account_service = ServiceState("root", None, <<>>, <<>>, None)

AccountsNext == AccountService_new \/ accounts \/ all_accounts_data \/ create_account \/ update

AccountsSpec == AccountsInit /\ [][AccountsNext]_vars

Hpe == bmc.vendor = Some(Some("HPE"))

LacksAccountTypes(payload) == payload[1] = "object" /\ "AccountTypes" \notin DOMAIN payload[2]

\* the AccountTypes the payload came with, as the names of an account
TypesOf(payload) ==
  [j \in DOMAIN payload[2]["AccountTypes"][2] |-> payload[2]["AccountTypes"][2][j][2]]

\* the account was read from the payload as the claim says: with the default
\* where the payload had no AccountTypes, with the payload's value otherwise
ReadAs(account, payload) ==
  account.account_types = IF LacksAccountTypes(payload) THEN <<"Redfish">> ELSE TypesOf(payload)

\* the method has returned: Ok at the pc, or its error
Returned(op, pc) ==
  \/ account_service.pc = pc
  \/ account_service.pc = "failed" /\ account_service.error[1][1] = op

\* the payload is an account but for AccountTypes, which it lacks or has valid
Readable(payload) == LacksAccountTypes(payload) \/ is_manager_account(payload)

FragmentKeys(c) ==
  DOMAIN c.entity_types \cup DOMAIN c.complex_types \cup DOMAIN c.type_definitions
    \cup DOMAIN c.enum_types

\* q is in the fragment c, in a frame of the chain, or marked in progress
ResolvedOrInProgress(stk, c, q) ==
  \/ q \in FragmentKeys(c)
  \/ \E i \in DOMAIN stk : q \in FragmentKeys(stk[i].current) \/ stk[i].entity_type = Some(q)

\* the declared base of q, if any
BaseOf(q) ==
  IF find_entity_type(schema_index, q)[1].base_type = None THEN {}
  ELSE {find_entity_type(schema_index, q)[1].base_type[1]}

\* the types of the first n properties of q that are not primitive
PropertyTypes(q, n) ==
  LET ps == find_entity_type(schema_index, q)[1].properties IN
  {ps[j].ptype : j \in {l \in DOMAIN ps : l <= n /\ ~is_simple_type(ps[l].ptype)}}

\* EntityType::compile is resolving the properties of its type
ResolvingProperties == Running /\ Top.fn = "entity" /\ Top.pc = "props"

\* EntityType::compile is about to add the record of its type
AddingOwnRecord ==
  /\ ResolvingProperties /\ ret.tag = "none"
  /\ Top.i > Len(find_entity_type(schema_index, Top.q)[1].properties)

\* C19: inside EntityType::compile the base is resolved first and its
\* fragment merged, then the properties in order, and the record of the type
\* is added last, by the step that ends the call: while the properties are
\* resolved the base and the properties already passed are in a frame of the
\* chain or marked in progress and the record of the type is in none of the
\* frames of the call; when the record is added, the base and the type of
\* every property are in the returned fragment, in a frame of the chain or
\* marked in progress.
ResolutionOrder ==
  /\ [](ResolvingProperties =>
          /\ \A d \in BaseOf(Top.q) \cup PropertyTypes(Top.q, Top.i - 1) :
               ResolvedOrInProgress(stack, Compiled_default, d)
          /\ Top.q \notin DOMAIN stack[Len(stack)].current.entity_types
          /\ Top.q \notin DOMAIN stack[Len(stack) - 1].current.entity_types
          /\ stack[Len(stack) - 2].entity_type = Some(Top.q))
  /\ [][AddingOwnRecord =>
          /\ ret'.tag = "ok"
          /\ Top.q \in DOMAIN ret'.compiled.entity_types
          /\ \A d \in BaseOf(Top.q) \cup PropertyTypes(Top.q, Len(find_entity_type(schema_index, Top.q)[1].properties)) :
               ResolvedOrInProgress(stack', ret'.compiled, d)
          /\ calls' = Pop(calls)]_vars

ResolutionOrderWitness ==
  /\ ret.tag = "ok" /\ B \in DOMAIN ret.compiled.entity_types
  /\ ret.compiled.entity_types[B].base = Some(A)
  /\ ret.compiled.entity_types[B].nav_properties # <<>>
  /\ ret.compiled.entity_types[B].nav_properties[1].ptype = C
  /\ {A, C} \subseteq DOMAIN ret.compiled.entity_types

(***************************************************************************)
(* The walk to the most specific descendant and the frame chain            *)
(***************************************************************************)
\* find_child_entity_type is in its loop for the singleton at the top
Walking == Running /\ Top.fn = "singleton" /\ Top.pc = "walk"

\* the type the walk is at is resolved or in progress in the frame chain
WalkInFrameChain == Walking /\ contains_entity(stack, Top.q)

\* the walk goes on to a derived type
WalkDescends ==
  /\ Walking /\ Len(calls') = Len(calls)
  /\ calls'[Len(calls')].pc = "walk"
  /\ calls'[Len(calls')].q \in Derived(Top.q)

\* the walk is over: an error or the singleton record is returned, or the
\* entity type is compiled
WalkEnds == Walking /\ (Len(calls') # Len(calls) \/ calls'[Len(calls')].pc # "walk")

\* C20: once the type the walk is at is resolved or in progress in the frame
\* chain, the walk does not descend further.
WalkStopsInFrameChain == [][WalkInFrameChain => ~WalkDescends]_vars

\* C20, amended: the walk never consults the frame chain. It descends
\* whenever the type it is at has exactly one derived type, in the frame
\* chain or not, and ends only at a type with no or several derived types;
\* the frame chain is consulted once for the type the walk ended at: when
\* that type is in it, only the singleton record, bound to that type, is
\* returned and nothing is compiled.
WalkIgnoresFrameChain ==
  [][/\ (Walking /\ Cardinality(Derived(Top.q)) = 1) => WalkDescends
     /\ WalkEnds => Cardinality(Derived(Top.q)) # 1
     /\ (WalkInFrameChain /\ IsEntity(Top.q) /\ Derived(Top.q) = {}) =>
          /\ calls' = Pop(calls)
          /\ ret' = Ok(new_singleton(singleton_record(Top.name, Top.q)))
          /\ stack' = stack]_vars

\* the walk of a singleton declared at A, which is in the frame chain, has
\* descended to B, which is in the frame chain as well
WalkIgnoresFrameChainWitness ==
  /\ Walking /\ DeclaredStype(Top.name) = A /\ Top.q = B
  /\ contains_entity(stack, A) /\ contains_entity(stack, B)

(***************************************************************************)
(* A singleton over an entity type that is already compiled                *)
(***************************************************************************)
\* the walk of the singleton at the top is over at a declared entity type
\* that is resolved or in progress in the frame chain
DescendantMaterialized ==
  /\ WalkInFrameChain
  /\ ~find_child_continues(schema_index, Top.q)
  /\ find_entity_type(schema_index, Top.q) # None

\* the singleton records of the IR with the given type
RecordsOfType(q) ==
  SelectSeq(result.compiled.root_singletons, LAMBDA r : r.stype = q)

\* C21: a singleton whose resolved descendant is present or in progress in
\* the frame chain returns only its singleton record and compiles nothing; two
\* activated singletons that resolve to one entity type yield two singleton
\* records and one compilation of that type.
MaterializedOnce ==
  /\ [][DescendantMaterialized =>
          /\ ret' = Ok(new_singleton(singleton_record(Top.name, Top.q)))
          /\ calls' = Pop(calls)
          /\ compiled_count' = compiled_count
          /\ stack' = stack]_vars
  /\ []((result.state = "ok" /\ singletons = SingletonNames
         /\ MostSpecific("S1") = MostSpecific("S2")) =>
          /\ Len(RecordsOfType(MostSpecific("S1"))) = 2
          /\ {RecordsOfType(MostSpecific("S1"))[i].name : i \in 1..2} = SingletonNames
          /\ compiled_count[MostSpecific("S1")] = 1)

\* both singletons are compiled to one entity type, below the declared type
\* of one of them
MaterializedOnceWitness ==
  /\ result.state = "ok" /\ singletons = SingletonNames
  /\ MostSpecific("S1") = MostSpecific("S2")
  /\ DeclaredStype("S1") # DeclaredStype("S2")
  /\ Len(RecordsOfType(MostSpecific("S1"))) = 2
  /\ compiled_count[MostSpecific("S1")] = 1

(***************************************************************************)
(* The first fault in resolution order is the one compile returns          *)
(***************************************************************************)
\* the activated singletons of a schema, in container order
ActivatedOf(s) ==
  IF s.entity_container = None THEN <<>>
  ELSE LET sel == SelectSeq(s.entity_container[1], LAMBDA e : e.name \in singletons)
       IN [j \in DOMAIN sel |-> sel[j].name]

RECURSIVE ActivatedOfAll(_)
ActivatedOfAll(ss) ==
  IF ss = <<>> THEN <<>> ELSE ActivatedOf(Head(ss)) \o ActivatedOfAll(Tail(ss))

\* the activated singletons in resolution order: documents in input order,
\* schemas in document order, singletons in container order
ActivatedInOrder == ActivatedOfAll(FlatSchemas(edmx_docs))

\* the place of a singleton in the resolution order
PlaceOf(name) == CHOOSE j \in DOMAIN ActivatedInOrder : ActivatedInOrder[j] = name

\* the walk to the most specific descendant of the singleton fails
WalkFails(name) == AmbiguousBelow(name) \/ ~IsEntity(MostSpecific(name))

\* the names of the singleton records in the frames
SingletonRecordsIn(stk) ==
  UNION {{stk[i].current.root_singletons[j].name :
            j \in DOMAIN stk[i].current.root_singletons} : i \in DOMAIN stk}

\* e is the end of f
IsSuffix(e, f) == Len(e) <= Len(f) /\ SubSeq(f, Len(f) - Len(e) + 1, Len(f)) = e

\* a call has returned an error to its caller
Failed == result.state = "running" /\ calls # <<>> /\ ret.tag = "err"

\* the error is passed on: one call ends, the error is kept or wrapped, and
\* no type is compiled
PassedOn ==
  /\ Len(calls') < Len(calls)
  /\ compiled_count' = compiled_count
  /\ \/ ret'.tag = "err" /\ IsSuffix(ret.error, ret'.error)
     \/ result'.state = "err" /\ IsSuffix(ret.error, result'.error)

\* C22: the error compile returns is the one of the first failing step in
\* resolution order, and no resolution step is executed after that failure:
\* from the failure on every step only passes the error on; the singleton the
\* error names is the first in resolution order that fails (all before it have
\* their records in the frames, none after it has, and no singleton whose walk
\* fails comes before it); the error of a base type leaves the properties
\* untouched, and the error of a property finds the base and the properties
\* before it resolved and names that property.
FirstFaultWins ==
  /\ [][(Failed /\ result'.state # "overflow") => PassedOn]_vars
  /\ [][(Failed /\ Top.fn = "compile") =>
          LET name == edmx_docs[Top.d][Top.s].entity_container[1][Top.k].name IN
          /\ result'.state = "err"
          /\ result'.error[2] = <<"Singleton", <<>>, name>>
          /\ name \in singletons
          /\ \A j \in DOMAIN ActivatedInOrder :
               ActivatedInOrder[j] \in SingletonRecordsIn(stack) <=> j < PlaceOf(name)]_vars
  /\ [][(Failed /\ Top.fn = "entity" /\ Top.pc = "base") =>
          /\ ret' = ret
          /\ Top.i = 1 /\ Top.properties = <<>> /\ Top.nav_properties = <<>>]_vars
  /\ [][(Failed /\ Top.fn = "entity" /\ Top.pc = "props") =>
          /\ ret'.tag = "err"
          /\ ret'.error[1] = <<"Property", <<>>, PropertiesOf(Top.q)[Top.i].name>>
          /\ Len(Top.properties) + Len(Top.nav_properties) = Top.i - 1
          /\ \A q \in BaseOf(Top.q) \cup PropertyTypes(Top.q, Top.i - 1) :
               ResolvedOrInProgress(stack, Compiled_default, q)]_vars
  /\ [](result.state = "err" =>
          \A j \in DOMAIN ActivatedInOrder :
            WalkFails(ActivatedInOrder[j]) => PlaceOf(result.error[2][3]) <= j)

\* two singletons are activated, the walks of both fail, and the error is
\* the one of the first
FirstFaultWinsWitness ==
  /\ result.state = "err"
  /\ Len(ActivatedInOrder) = 2
  /\ WalkFails(ActivatedInOrder[1]) /\ WalkFails(ActivatedInOrder[2])
  /\ result.error[2][3] = ActivatedInOrder[1]

(***************************************************************************)
(* The creatable-type set                                                  *)
(***************************************************************************)
\* the element types of the expandable Members properties of the insertable
\* entity types of the fragment
MemberTypes(c) ==
  UNION {{c.entity_types[q].nav_properties[j].ptype :
            j \in {l \in DOMAIN c.entity_types[q].nav_properties :
                     /\ c.entity_types[q].nav_properties[l].name = "Members"
                     /\ c.entity_types[q].nav_properties[l].expandable}} :
         q \in {r \in DOMAIN c.entity_types : c.entity_types[r].insertable}}

CreatableExact(c) == c.creatable_entity_types = MemberTypes(c)

\* the step returns the fragment of the entity type it has compiled
EntityTypeCompiled ==
  /\ Running /\ Top.fn = "entity" /\ Top.pc = "props"
  /\ ret'.tag = "ok"

\* the creatable types of the frames, of the returned fragment and of the IR
KnownCreatable ==
  ret.compiled.creatable_entity_types \cup result.compiled.creatable_entity_types
    \cup UNION {stack[i].current.creatable_entity_types : i \in DOMAIN stack}

\* C23: a name is in the creatable-type set of the IR, of every frame and of
\* every returned fragment exactly when the entity-type map beside it holds
\* an insertable entity type whose Members navigation property is expandable
\* and has that element type; a name that no frame and no fragment held enters
\* only by the step that compiles the owning entity type, never by a merge.
CreatablePropagation ==
  /\ [](/\ result.state = "ok" => CreatableExact(result.compiled)
        /\ ret.tag = "ok" => CreatableExact(ret.compiled)
        /\ \A i \in DOMAIN stack : CreatableExact(stack[i].current))
  /\ [][\A t \in KnownCreatable' \ KnownCreatable :
          /\ EntityTypeCompiled
          /\ insertable_member_type(ret'.compiled.entity_types[Top.q]) = Some(t)]_vars

\* the IR holds the insertable collection A of C, which is creatable, and B,
\* whose member type D is creatable as well, after the merge of both
CreatablePropagationWitness ==
  /\ result.state = "ok"
  /\ result.compiled.creatable_entity_types = {C, D}
  /\ {A, B, C, D} \subseteq DOMAIN result.compiled.entity_types
  /\ result.compiled.entity_types[A].insertable

(***************************************************************************)
(* Frames                                                                  *)
(***************************************************************************)
\* the frames of s below its last n frames are the frames of t
SameAncestors(s, t, n) == Len(s) >= n /\ SubSeq(s, 1, Len(s) - n) = t

\* the fragments at hand: the returned one and the accumulators of the frames
FragmentsAtHand ==
  {ret.compiled} \cup {stack[i].current : i \in DOMAIN stack}

\* the ancestors of the current frame are not changed by the step, and a
\* frame that stays or becomes the current one keeps its marker
AncestorsKept ==
  /\ \A i \in DOMAIN stack' :
       (i < Len(stack') /\ i <= Len(stack)) => stack'[i] = stack[i]
  /\ (stack' # <<>> /\ Len(stack') <= Len(stack)) =>
       stack'[Len(stack')].entity_type = stack[Len(stack')].entity_type

\* C24: only the accumulator of the current frame is changed by merge: a new
\* frame has an empty accumulator and no marker and leaves the chain below it
\* as it was; merge keeps the ancestors, the parent and the marker of the
\* frame; marking keeps the ancestors and the accumulator; done returns what was
\* merged into the frame and nothing of the ancestors; and no step of a
\* resolution changes an ancestor of the current frame.
FrameIsolation ==
  /\ [](stack # <<>> =>
          /\ SameAncestors(new_frame(stack), stack, 1)
          /\ new_frame(stack)[Len(stack) + 1] = [entity_type |-> None, current |-> Compiled_default]
          /\ \A q \in EntityNames :
               /\ SameAncestors(with_enitity_type(new_frame(stack), q), stack, 1)
               /\ with_enitity_type(stack, q)[Len(stack)].current = stack[Len(stack)].current
               /\ with_enitity_type(stack, q)[Len(stack)].entity_type = Some(q)
               /\ SameAncestors(with_enitity_type(stack, q), Pop(stack), 1)
          /\ \A c \in FragmentsAtHand :
               /\ Len(Stack_merge(stack, c)) = Len(stack)
               /\ SameAncestors(Stack_merge(stack, c), Pop(stack), 1)
               /\ Stack_merge(stack, c)[Len(stack)].entity_type = stack[Len(stack)].entity_type
               /\ Stack_merge(stack, c)[Len(stack)].current = Compiled_merge(stack[Len(stack)].current, c)
               /\ Stack_done(Stack_merge(new_frame(stack), c)) = Compiled_merge(Compiled_default, c)
               /\ \A d \in FragmentsAtHand :
                    Stack_done(Stack_merge(Stack_merge(new_frame(stack), c), d))
                      = Compiled_merge(Compiled_merge(Compiled_default, c), d)
               /\ SameAncestors(Stack_merge(new_frame(stack), c), stack, 1))
  /\ [][AncestorsKept]_vars

\* a fragment is returned under a chain of four or more frames, one of them
\* marked, an ancestor of the current one with types in its accumulator
FrameIsolationWitness ==
  /\ Len(stack) >= 4
  /\ ret.tag = "ok" /\ ret.compiled # Compiled_default
  /\ \E i \in DOMAIN stack : stack[i].entity_type # None
  /\ \E i \in DOMAIN stack : i < Len(stack) /\ stack[i].current # Compiled_default

(***************************************************************************)
(* The parameter list of a compiled action                                 *)
(***************************************************************************)
\* the record of the action in a fragment that holds it
CompiledAction(c) == c.actions[action.parameters[1].ptype][action.name]

\* the name is declared as a type that is not an entity type
DeclaredType(q) == InputDecl(q) # None /\ InputDecl(q)[1].kind # "entity"

\* the class the compiled parameter of the given type has
ExpectedClass(q) ==
  IF is_simple_type(q) \/ DeclaredType(q) THEN "Type" ELSE "Entity"

\* compile_action is at its next parameter
AtParameter ==
  /\ Running /\ Top.fn = "action" /\ Top.pc = "params" /\ ret.tag = "none"
  /\ Top.i <= Len(action.parameters)

\* C25: the compiled action is bound to the type of the first declared
\* parameter and lists the other n-1 parameters in declaration order; a
\* parameter of a primitive type triggers no resolution, one whose type the
\* index finds as a type is a plain type, and any other parameter is resolved
\* as an entity type and is an entity-type reference.
ActionParameterList ==
  /\ []((ActionReturned /\ ret.tag = "ok" /\ ret.compiled.actions # EmptyMap) =>
          /\ DOMAIN ret.compiled.actions = {action.parameters[1].ptype}
          /\ CompiledAction(ret.compiled).binding = action.parameters[1].ptype
          /\ Len(CompiledAction(ret.compiled).parameters) = Len(action.parameters) - 1
          /\ \A j \in DOMAIN CompiledAction(ret.compiled).parameters :
               /\ CompiledAction(ret.compiled).parameters[j].name = action.parameters[j + 1].name
               /\ CompiledAction(ret.compiled).parameters[j].ptype
                    = <<ExpectedClass(action.parameters[j + 1].ptype),
                        action.parameters[j + 1].ptype>>)
  /\ [][AtParameter =>
          LET q == action.parameters[Top.i].ptype IN
          /\ is_simple_type(q) =>
               /\ Len(calls') = Len(calls)
               /\ compiled_count' = compiled_count
               /\ \A i \in DOMAIN stack : stack'[i].current = stack[i].current
          /\ (~is_simple_type(q) /\ DeclaredType(q)) =>
               \/ Len(calls') = Len(calls) /\ ResolvedOrInProgress(stack, Compiled_default, q)
               \/ calls' = Push(Call("type", "start", q))
          /\ (~is_simple_type(q) /\ ~DeclaredType(q)) =>
               calls' = Push(Call("ensure", "start", q))]_vars

\* an action with three parameters is compiled: the second is primitive, the
\* third an entity type
ActionParameterListWitness ==
  /\ ActionReturned /\ ret.tag = "ok" /\ ret.compiled.actions # EmptyMap
  /\ Len(action.parameters) = 3
  /\ CompiledAction(ret.compiled).parameters[1].ptype = <<"Type", String>>
  /\ CompiledAction(ret.compiled).parameters[2].ptype = <<"Entity", B>>

(***************************************************************************)
(* Actions under merge                                                     *)
(***************************************************************************)
\* the names of the actions the fragment has for the bound type
ActionNames(c, t) == IF t \in DOMAIN c.actions THEN DOMAIN c.actions[t] ELSE {}

\* m has, for every bound type, the action names of a and of b and no other
Accumulated(m, a, b) ==
  /\ DOMAIN m.actions = DOMAIN a.actions \cup DOMAIN b.actions
  /\ \A t \in DOMAIN a.actions \cup DOMAIN b.actions \cup DOMAIN m.actions :
       ActionNames(m, t) = ActionNames(a, t) \cup ActionNames(b, t)

\* C26: merge merges the inner action maps per bound type: for every bound
\* type the action names after the merge are the union of the action names
\* of both inputs for that type; no bound type and no action is dropped.
ActionAccumulation ==
  merged # <<>> =>
    /\ merged.ab # None => Accumulated(merged.ab[1], fragments[1], fragments[2])
    /\ merged.ba # None => Accumulated(merged.ba[1], fragments[2], fragments[1])
    /\ merged.bc # None => Accumulated(merged.bc[1], fragments[2], fragments[3])
    /\ merged.ab_c # None => Accumulated(merged.ab_c[1], merged.ab[1], fragments[3])
    /\ merged.a_bc # None => Accumulated(merged.a_bc[1], fragments[1], merged.bc[1])

\* two fragments with different actions of one bound type are merged with a
\* fragment that has an action of another bound type
ActionAccumulationWitness ==
  /\ merged # <<>> /\ merged.ab_c # None
  /\ ActionNames(fragments[1], X) = {"Act"}
  /\ ActionNames(fragments[2], X) = {"Reset"}
  /\ ActionNames(fragments[3], Y) = {"Act"}
  /\ ActionNames(merged.ab_c[1], X) = {"Act", "Reset"}
  /\ ActionNames(merged.ab_c[1], Y) = {"Act"}

(***************************************************************************)
(* Actions are attached to compiled complex types                          *)
(***************************************************************************)
\* C27: whenever compile_action returns a fragment that is not empty, the
\* type of the binding parameter is a key of the complex-type map of a frame
\* of the chain the caller passed, and the action map of the fragment has
\* one entry: the action, under that binding type and its own name.
ActionsAttachToComplexTypes ==
  (ActionReturned /\ ret.tag = "ok" /\ ret.compiled # Compiled_default) =>
    /\ action.is_bound /\ action.parameters # <<>>
    /\ action.parameters[1].ptype \in VisibleComplexTypes
    /\ DOMAIN ret.compiled.actions = {action.parameters[1].ptype}
    /\ DOMAIN ret.compiled.actions[action.parameters[1].ptype] = {action.name}
    /\ CompiledAction(ret.compiled).name = action.name
    /\ CompiledAction(ret.compiled).binding = action.parameters[1].ptype

\* the action is returned with the types of its return type and parameter;
\* its binding type was compiled by the caller into a frame above the one
\* passed to compile_action
ActionsAttachToComplexTypesWitness ==
  /\ ActionReturned /\ ret.tag = "ok"
  /\ host.nested
  /\ action.parameters[1].ptype \in DOMAIN stack[1].current.complex_types
  /\ DOMAIN ret.compiled.actions = {action.parameters[1].ptype}
  /\ ret.compiled.complex_types # EmptyMap
  /\ ret.compiled.entity_types # EmptyMap

(***************************************************************************)
(* compile on documents that supply one namespace more than once           *)
(***************************************************************************)
RepeatedInit ==
  /\ \E p \in RepeatedInputs :
       /\ edmx_docs = RepeatedDocs(p)
       /\ singletons = p.act
  /\ schema_index = [index |-> EmptyMap, child_map |-> EmptyMap]
  /\ stack = <<>>
  /\ calls = <<>>
  /\ ret = NoRet
  /\ result = Finish("init", Compiled_default, <<>>)
  /\ compiled_count = [q \in AllNames |-> 0]
  /\ action = None
  /\ host = None
  /\ merge_idle
  /\ never_run
  /\ duration_idle
  /\ namespaces_idle
  /\ accounts_idle

\* the steps of compile on entity types without properties
RepeatedNext ==
  \/ compile_begin
  \/ compile_doc
  \/ compile_done
  \/ compile_schema_begin
  \/ compile_doc_done
  \/ compile_schema_singleton
  \/ compile_schema_skip
  \/ compile_schema_merge
  \/ compile_schema_fail
  \/ compile_schema_done
  \/ find_child_entity_type_descend
  \/ find_child_entity_type_ambiguous
  \/ singleton_already_compiled
  \/ singleton_compile_entity
  \/ singleton_return
  \/ EntityType_compile_begin
  \/ EntityType_compile_base
  \/ EntityType_compile_done
  \/ EntityType_ensure_begin
  \/ EntityType_ensure_return

RepeatedSpec == RepeatedInit /\ [][RepeatedNext]_vars

\* the qualified names declared, in any schema of any document, as entity
\* types with the base type q
DeclaredChildren(q) ==
  UNION { {QualifiedName(s.namespace, name) :
             name \in {n \in DOMAIN s.types :
                         /\ s.types[n].kind = "entity"
                         /\ s.types[n].base_type = Some(q)}} :
          s \in {FlatSchemas(edmx_docs)[j] : j \in DOMAIN FlatSchemas(edmx_docs)} }

\* C28: find_child_entity_type fails with Ambiguous Hierarchy for a type only
\* if two or more different qualified names are declared as entity types
\* that extend it; a derived type that is indexed more than once does not
\* make the hierarchy ambiguous.
AmbiguityOnlyForDistinctSiblings ==
  \A q \in EntityNames :
    (ret.tag = "err" /\ RootCause(ret.error) = Error_AmbigousHeirarchy(q)) =>
      Cardinality(DeclaredChildren(q)) >= 2

(***************************************************************************)
(* EdmDuration as text: Display, and the text parsed again.                *)
(***************************************************************************)
\* the decimal digits of a natural number
RECURSIVE NatDigits(_)
NatDigits(n) ==
  IF n < 10 THEN <<Digits[n + 1]>> ELSE Append(NatDigits(n \div 10), Digits[(n % 10) + 1])

\* the k digits of the fraction f, without the zeros at their end
RECURSIVE FracDigits(_, _)
FracDigits(f, k) ==
  IF f = 0 THEN <<>>
  ELSE <<Digits[(f \div Pow10(k - 1)) + 1]>> \o FracDigits(f % Pow10(k - 1), k - 1)

\* Display of Decimal::normalize
Decimal_normalize(x) ==
  NatDigits(x.whole) \o
    (IF x.frac = 0 THEN <<>> ELSE <<".">> \o FracDigits(x.frac, DecimalScale))

\* EdmDuration::div_with_reminder, for a whole divisor d
div_with_reminder(v, d) ==
  LET reminder == [whole |-> v.whole % d, frac |-> v.frac] IN
  <<[whole |-> (v.whole - reminder.whole) \div d, frac |-> 0], reminder>>

\* faulty variant: the sign is not written
Display_fmt_unsigned(d) ==
  IF d.result = Decimal_ZERO THEN <<"P", "T", "0", "S">>
  ELSE
    LET days == div_with_reminder(d.result, 24 * 3600)
        hours == div_with_reminder(days[2], 3600)
        mins == div_with_reminder(hours[2], 60)
    IN <<"P">>
       \o (IF days[1] # Decimal_ZERO THEN Decimal_normalize(days[1]) \o <<"D">> ELSE <<>>)
       \o (IF days[2] # Decimal_ZERO
           THEN <<"T">>
                \o (IF hours[1] # Decimal_ZERO
                    THEN Decimal_normalize(hours[1]) \o <<"H">> ELSE <<>>)
                \o (IF mins[1] # Decimal_ZERO
                    THEN Decimal_normalize(mins[1]) \o <<"M">> ELSE <<>>)
                \o Decimal_normalize(mins[2]) \o <<"S">>
           ELSE <<>>)

\* Display for EdmDuration: the text of the duration d
Display_fmt(d) ==
  IF d.result = Decimal_ZERO THEN <<"P", "T", "0", "S">>
  ELSE
    LET days == div_with_reminder(d.result, 24 * 3600)
        hours == div_with_reminder(days[2], 3600)
        mins == div_with_reminder(hours[2], 60)
    IN (IF d.neg THEN <<"-", "P">> ELSE <<"P">>)
       \o (IF days[1] # Decimal_ZERO THEN Decimal_normalize(days[1]) \o <<"D">> ELSE <<>>)
       \o (IF days[2] # Decimal_ZERO
           THEN <<"T">>
                \o (IF hours[1] # Decimal_ZERO
                    THEN Decimal_normalize(hours[1]) \o <<"H">> ELSE <<>>)
                \o (IF mins[1] # Decimal_ZERO
                    THEN Decimal_normalize(mins[1]) \o <<"M">> ELSE <<>>)
                \o Decimal_normalize(mins[2]) \o <<"S">>
           ELSE <<>>)

\* how often a duration is written and read again
MaxShown == 2

\* to_string and from_str of its text: the duration and its text are kept
\* in shown, the text becomes the string to parse
to_string ==
  /\ parsed # <<>> /\ parsed.pc = "ok"
  /\ Len(shown) < MaxShown
  /\ LET text == Display_fmt(parsed) IN
     /\ shown' = Append(shown, [neg |-> parsed.neg, result |-> parsed.result, text |-> text])
     /\ input' = text
     /\ parsed' = [pc |-> "start", neg |-> FALSE, result |-> Decimal_ZERO, chars |-> text]
  /\ UNCHANGED <<compiler_vars, action, host, fragments, merged, first_run, bmc, account_service, namespaces>>

\* strings of the tests of Display, and some with a sign and a fraction
RoundTripExamples ==
  { <<"P", "T", "1", ".", "7", "5", "H">>,
    <<"P", "1", ".", "2", "5", "D">>,
    <<"P", "T", "6", "0", "S">>,
    <<"P", "T", "3", "6", "0", "0", "S">>,
    <<"P", "T", "1", ".", "2", "3", "0", "S">>,
    <<"P", "T", "0", "1", "S">>,
    <<"P", "T", "1", "0", "0", "0", "0", "0", "H">>,
    <<"-", "P", "T", "0", ".", "2", "5", "S">>,
    <<"-", "P", "1", "D", "T", "1", ".", "5", "M">>,
    <<"-", "P", "T", "0", "S">>,
    <<"P", "2", "D", "T", "0", ".", "0", "0", "5", "S">> }

RoundTripInit ==
  /\ edmx_docs = <<>>
  /\ singletons = {}
  /\ schema_index = [index |-> EmptyMap, child_map |-> EmptyMap]
  /\ stack = <<>>
  /\ calls = <<>>
  /\ ret = NoRet
  /\ result = Finish("init", Compiled_default, <<>>)
  /\ compiled_count = [q \in AllNames |-> 0]
  /\ action = None
  /\ host = None
  /\ merge_idle
  /\ never_run
  /\ accounts_idle
  /\ namespaces_idle
  /\ input \in DurationInputs \cup RoundTripExamples
  /\ shown = <<>>
  /\ parsed = [pc |-> "start", neg |-> FALSE, result |-> Decimal_ZERO, chars |-> input]

RoundTripNext == DurationNext \/ to_string

RoundTripSpec == RoundTripInit /\ [][RoundTripNext]_vars

\* the Decimal values of two durations are equal (a zero has no sign)
SameDuration(a, b) ==
  /\ a.result = b.result
  /\ a.result # Decimal_ZERO => a.neg = b.neg

\* d is a whole number of days, and not zero
WholeDays(d) == d.result.frac = 0 /\ d.result.whole > 0 /\ d.result.whole % (24 * 3600) = 0

\* C29: the text Display writes for a duration that from_str returned is
\* parsed by from_str without an error, to an equal duration, and writing
\* that duration gives the same text again; zero is written PT0S, a whole
\* number of days P<n>D, a negative duration with a minus at its start.
TextRoundTrip ==
  /\ (shown # <<>> /\ parsed # <<>>) =>
       /\ parsed.pc # "err"
       /\ parsed.pc = "ok" => SameDuration(parsed, shown[Len(shown)])
  /\ \A i \in DOMAIN shown :
       /\ shown[i].text = shown[1].text
       /\ shown[i].result = Decimal_ZERO => shown[i].text = <<"P", "T", "0", "S">>
       /\ WholeDays(shown[i]) =>
            shown[i].text =
              (IF shown[i].neg THEN <<"-", "P">> ELSE <<"P">>)
                \o NatDigits(shown[i].result.whole \div (24 * 3600)) \o <<"D">>
       /\ (shown[i].neg /\ shown[i].result # Decimal_ZERO) <=> shown[i].text[1] = "-"

\* a negative duration of days, minutes and seconds written twice and
\* parsed after each
TextRoundTripWitness ==
  /\ Len(shown) = 2
  /\ parsed # <<>> /\ parsed.pc = "ok"
  /\ shown[1].neg
  /\ shown[1].result.whole > 24 * 3600
  /\ shown[1].result.whole % 60 # 0
  /\ shown[2].text = <<"-", "P", "1", "D", "T", "1", "M", "3", "0", "S">>

(***************************************************************************)
(* compiler::Namespace: an edmx namespace and the number of its            *)
(* identifiers that count.                                                 *)
(***************************************************************************)
\* the identifiers of a namespace
NamespaceIds == {"Edm", "N1", "v1"}

\* the longest namespace
MaxIds == 3

\* edmx::Namespace values: one identifier or more
EdmxNamespaces == UNION {[1..n -> NamespaceIds] : n \in 1..MaxIds}

\* Namespace::new
Namespace_new(edmx_ns) == [edmx_ns |-> edmx_ns, len |-> Len(edmx_ns)]

\* Namespace::parent
Namespace_parent(ns) == IF ns.len > 1 THEN Some([ns EXCEPT !.len = @ - 1]) ELSE None

\* PartialEq for Namespace
Namespace_eq(a, b) ==
  a.len = b.len /\ SubSeq(a.edmx_ns, 1, a.len) = SubSeq(b.edmx_ns, 1, a.len)

\* Namespace::is_edm of the compiler
compiler_Namespace_is_edm(ns) == ns.len = 1 /\ Namespace_is_edm(ns.edmx_ns)

\* a namespace value is made of an edmx namespace
new_namespace ==
  /\ namespaces # <<>>
  /\ \E side \in {"lhs", "rhs"}, edmx_ns \in EdmxNamespaces :
       namespaces' = [namespaces EXCEPT ![side] = Some(Namespace_new(edmx_ns))]
  /\ UNCHANGED <<compiler_vars, action, host, fragments, merged, first_run, input, parsed, shown,
                 bmc, account_service>>

\* a namespace value is replaced by its parent
prune_namespace ==
  /\ namespaces # <<>>
  /\ \E side \in {"lhs", "rhs"} :
       /\ namespaces[side] # None
       /\ Namespace_parent(namespaces[side][1]) # None
       /\ namespaces' = [namespaces EXCEPT ![side] = Namespace_parent(namespaces[side][1])]
  /\ UNCHANGED <<compiler_vars, action, host, fragments, merged, first_run, input, parsed, shown,
                 bmc, account_service>>

NamespaceInit ==
  /\ edmx_docs = <<>>
  /\ singletons = {}
  /\ schema_index = [index |-> EmptyMap, child_map |-> EmptyMap]
  /\ stack = <<>>
  /\ calls = <<>>
  /\ ret = NoRet
  /\ result = Finish("init", Compiled_default, <<>>)
  /\ compiled_count = [q \in AllNames |-> 0]
  /\ action = None
  /\ host = None
  /\ merge_idle
  /\ never_run
  /\ duration_idle
  /\ accounts_idle
  /\ namespaces = [lhs |-> None, rhs |-> None]

NamespaceNext == new_namespace \/ prune_namespace

NamespaceSpec == NamespaceInit /\ [][NamespaceNext]_vars

\* C30: two compiler Namespace values that compare equal, however they were
\* obtained (made of an edmx namespace or pruned with parent()), give the
\* same answer to is_edm().
EqualNamespacesAgreeOnEdm ==
  (namespaces # <<>> /\ namespaces.lhs # None /\ namespaces.rhs # None) =>
    (Namespace_eq(namespaces.lhs[1], namespaces.rhs[1]) =>
       compiler_Namespace_is_edm(namespaces.lhs[1]) = compiler_Namespace_is_edm(namespaces.rhs[1]))
====
